---- MODULE Spec2Model ----
(***************************************************************************)
(* Travel-Recommendation-System: the ingestion pipeline.                   *)
(*                                                                         *)
(*   db/crud.py            bulk_create_packages (dedup-aware bulk insert)  *)
(*   db/sessions.py        SessionLocal (autoflush=False), DATABASE_URL    *)
(*   tools/normalizer.py   DataNormalizer                                  *)
(*   tools/llm_helper.py   GeminiLLM.extract_packages_from_html + tiers    *)
(*   tools/scraper_engine.py ScraperEngine.__aenter__ / scrape_agency      *)
(*   api/routes/recommend.py auto_scrape_and_store                         *)
(*   scripts/scrape_and_store.py scrape_and_store                          *)
(*                                                                         *)
(* Strings are sequences of one-character strings, so that len(), strip(), *)
(* split()/join() and title() are computed rather than assumed.            *)
(***************************************************************************)
EXTENDS Integers, Sequences, FiniteSets, TLC

VARIABLES
    dialect,        \* database behind DATABASE_URL: "sqlite" or "postgresql"
    table,          \* committed rows of travel_packages, in insertion order
    calls,          \* history of the bulk_create_packages calls made so far
    agency_counts,  \* scrape_success_count / scrape_failure_count per agency
    raw_package,    \* the raw listing handed to normalize_package
    normalized,     \* what normalize_package returned for it
    norm_pc,        \* "input" before the call, "done" after it
    browser_type,   \* ScraperEngine.browser_type (SCRAPER_BROWSER)
    max_retries,    \* ScraperEngine.max_retries (SCRAPER_MAX_RETRIES)
    browser,        \* ScraperEngine.browser: "none" or the engine launched
    fallback_mode,  \* ScraperEngine.fallback_mode
    entered,        \* how __aenter__ went: "not_yet", "ok", "launch_failed",
                    \* "start_failed"
    scrape_pc,      \* position of the scrape: "new", "ready", "attempt",
                    \* "gemini", "fallback", "returned", "raised", "closed"
    scrape_args,    \* arguments of the running scrape_agency call
    attempt,        \* loop variable of scrape_agency
    result,         \* the result dict of scrape_agency
    html,           \* the page content fetched by the current attempt
    llm_attempt,    \* loop variable of extract_packages_from_html
    fetched,        \* outcome of the latest attempt of the call
    gemini_log,     \* every response of model.generate_content, in order
    tier_log,       \* the extraction tiers invoked, in order
    wait,           \* the seconds slept by the latest step of the call
    pages_open,     \* browser pages opened and not closed
    candidates,     \* the packages handed to rank_packages
    parsed_intent,  \* the intent handed to rank_packages
    max_results,    \* the max_results handed to rank_packages
    scored_packages, \* scored_packages of rank_packages after the sort
    ranked,         \* what rank_packages returned
    rank_pc,        \* "input" before the call, "done" after it
    agencies,       \* the list handed to scrape_multiple_agencies
    max_concurrent, \* SCRAPER_MAX_CONCURRENT as the call read it
    batch_i,        \* the loop variable i of scrape_multiple_agencies
    tasks,          \* per input agency: "not_started", "scheduled",
                    \* "running" or "finished" scrape_agency call
    task_results,   \* per input agency: <<>> or <<result>> of its call
    results,        \* the list results of scrape_multiple_agencies
    multi_pc,       \* "idle", "loop", "gather", "sleep" or "returned"
    plan_intent,    \* the intent handed to create_plan
    plan,           \* <<>> or <<the TripPlan create_plan returned>>
    plan_pc,        \* "idle", "input" before the call, "done" after it
    query,          \* the query string handed to IntentParser.parse
    parse_result,   \* <<>> or <<the fields of the ParsedIntent returned>>
    parse_pc,       \* "idle", "input" before the call, "done" after it
    sessions        \* the concurrent bulk_create_packages calls, one per
                    \* DB session: <<>> or a record per session

storeVars == <<dialect, table, calls, agency_counts>>
normVars == <<raw_package, normalized, norm_pc>>
engineVars == <<browser_type, max_retries, browser, fallback_mode, entered>>
scrapeVars ==
    <<scrape_pc, scrape_args, attempt, result, html, llm_attempt,
      fetched, gemini_log, tier_log, wait, pages_open>>
rankVars ==
    <<candidates, parsed_intent, max_results, scored_packages, ranked, rank_pc>>
multiVars ==
    <<agencies, max_concurrent, batch_i, tasks, task_results, results,
      multi_pc>>
planVars == <<plan_intent, plan, plan_pc>>
parseVars == <<query, parse_result, parse_pc>>
vars ==
    <<storeVars, normVars, engineVars, scrapeVars, rankVars, multiVars,
      planVars, parseVars, sessions>>

-----------------------------------------------------------------------------
(* Bounds of the model *)

MaxBatch == 2       \* longest list handed to one bulk_create_packages call
MaxCalls == 2       \* bulk_create_packages calls in one behaviour
MaxTitleLen == 6    \* longest raw title handed to normalize_package
MaxPriceLen == 5    \* longest raw price string
MaxDurationLen == 3 \* longest raw duration string
MaxRetriesCfg == 2  \* largest SCRAPER_MAX_RETRIES configured
MaxItems == 1       \* longest JSON array the model returns
MaxCandidates == 2  \* longest candidate list handed to rank_packages
MaxResults == 2     \* largest max_results handed to rank_packages
MaxAgencies == 3    \* longest list handed to scrape_multiple_agencies
MaxConcurrent == 2  \* largest SCRAPER_MAX_CONCURRENT configured
MaxDestinations == 3 \* longest destination list handed to create_plan
MaxPlanDays == 7    \* largest duration_days handed to create_plan
MaxQueryWords == 3  \* most words in a query handed to IntentParser.parse

-----------------------------------------------------------------------------
(* String helpers *)

\* the sequences over S of length 0..n
SeqsUpTo(S, n) == UNION {[1..k -> S] : k \in 0..n}

EmptyStr == <<>>

\* whitespace characters of the model's alphabet (str.split, str.strip, \s)
Whitespace == {" "}

Digits == {"0", "1", "2", "3", "4", "5", "6", "7", "8", "9"}

DigitValue(c) ==
    CASE c = "0" -> 0 [] c = "1" -> 1 [] c = "2" -> 2 [] c = "3" -> 3
      [] c = "4" -> 4 [] c = "5" -> 5 [] c = "6" -> 6 [] c = "7" -> 7
      [] c = "8" -> 8 [] c = "9" -> 9

\* int(s) / float(s) of a non-empty string of decimal digits
RECURSIVE DecimalValue(_)
DecimalValue(s) ==
    IF s = <<>> THEN 0
    ELSE 10 * DecimalValue(SubSeq(s, 1, Len(s) - 1)) + DigitValue(s[Len(s)])

\* the cased letters
UpperAlphabet ==
    <<"A", "B", "C", "D", "E", "F", "G", "H", "I", "J", "K", "L", "M",
      "N", "O", "P", "Q", "R", "S", "T", "U", "V", "W", "X", "Y", "Z">>
LowerAlphabet ==
    <<"a", "b", "c", "d", "e", "f", "g", "h", "i", "j", "k", "l", "m",
      "n", "o", "p", "q", "r", "s", "t", "u", "v", "w", "x", "y", "z">>
IsUpper(c) == \E i \in DOMAIN UpperAlphabet : UpperAlphabet[i] = c
IsLower(c) == \E i \in DOMAIN LowerAlphabet : LowerAlphabet[i] = c
IsLetter(c) == IsUpper(c) \/ IsLower(c)
Upper(c) ==
    IF IsLower(c)
    THEN UpperAlphabet[CHOOSE i \in DOMAIN LowerAlphabet : LowerAlphabet[i] = c]
    ELSE c
Lower(c) ==
    IF IsUpper(c)
    THEN LowerAlphabet[CHOOSE i \in DOMAIN UpperAlphabet : UpperAlphabet[i] = c]
    ELSE c

\* str.lower()
StrLower(s) == [i \in 1..Len(s) |-> Lower(s[i])]

\* w in s
Contains(s, w) ==
    \E i \in 0..(Len(s) - Len(w)) : SubSeq(s, i + 1, i + Len(w)) = w

\* s.startswith(w)
StartsWith(s, w) == Len(s) >= Len(w) /\ SubSeq(s, 1, Len(w)) = w

\* s.endswith(w)
EndsWith(s, w) ==
    Len(s) >= Len(w) /\ SubSeq(s, Len(s) - Len(w) + 1, Len(s)) = w

\* s.lstrip(c)
RECURSIVE LStrip(_, _)
LStrip(s, c) == IF s # <<>> /\ s[1] = c THEN LStrip(Tail(s), c) ELSE s

\* str.title(): a letter that follows a non-letter (or starts the string) is
\* upper-cased, every other letter lower-cased
StrTitle(s) ==
    [i \in 1..Len(s) |->
        IF ~IsLetter(s[i]) THEN s[i]
        ELSE IF i = 1 \/ ~IsLetter(s[i - 1]) THEN Upper(s[i]) ELSE Lower(s[i])]

\* re.split / str.split on the separator characters Seps, empty pieces kept
RECURSIVE SplitFrom(_, _, _, _)
SplitFrom(s, i, cur, Seps) ==
    IF i > Len(s) THEN <<cur>>
    ELSE IF s[i] \in Seps THEN <<cur>> \o SplitFrom(s, i + 1, <<>>, Seps)
    ELSE SplitFrom(s, i + 1, Append(cur, s[i]), Seps)

SplitOn(s, Seps) == SplitFrom(s, 1, <<>>, Seps)

\* sep.join(words)
RECURSIVE StrJoin(_, _)
StrJoin(words, sep) ==
    IF words = <<>> THEN <<>>
    ELSE IF Len(words) = 1 THEN words[1]
    ELSE words[1] \o sep \o StrJoin(Tail(words), sep)

\* " ".join(s.split()): whitespace runs collapse to one space, ends trimmed
CollapseWhitespace(s) ==
    StrJoin(SelectSeq(SplitOn(s, Whitespace), LAMBDA w : w # <<>>), <<" ">>)

\* str.strip()
RECURSIVE StrStrip(_)
StrStrip(s) ==
    IF s = <<>> THEN s
    ELSE IF s[1] \in Whitespace THEN StrStrip(Tail(s))
    ELSE IF s[Len(s)] \in Whitespace THEN StrStrip(SubSeq(s, 1, Len(s) - 1))
    ELSE s

-----------------------------------------------------------------------------
(* db/sessions.py, db/models.py : the package table *)

Agencies == {1, 2}

\* the counters of freshly seeded agencies
NoCounts ==
    [a \in Agencies |-> [scrape_success_count |-> 0, scrape_failure_count |-> 0]]

Dialects == {"sqlite", "postgresql"}

\* a listing title of 8 characters: "Goa Trip"
TitleGoaTrip == <<"G", "o", "a", " ", "T", "r", "i", "p">>

\* a URL of 10 characters, not longer than the placeholder length: "http://a.b"
UrlShort == <<"h", "t", "t", "p", ":", "/", "/", "a", ".", "b">>

\* a URL of 13 characters: "http://a.in/1"
UrlLong == <<"h", "t", "t", "p", ":", "/", "/", "a", ".", "i", "n", "/", "1">>

\* the package dicts a caller hands to bulk_create_packages directly
\* (scraped_at is a datetime object, as DataNormalizer writes it)
DirectListings ==
    [package_title : {EmptyStr, TitleGoaTrip},
     url : {EmptyStr, UrlShort, UrlLong},
     price_in_inr : {5000},
     duration_days : {3, 5},
     destinations : {<< <<"G", "o", "a">> >>},
     scraped_at : {"datetime"}]

\* a package dict that also carries the agency's name, which is not a column
\* of travel_packages
ListingWithAgencyName ==
    [package_title |-> TitleGoaTrip, url |-> UrlLong, price_in_inr |-> 5000,
     duration_days |-> 5, destinations |-> << <<"G", "o", "a">> >>,
     scraped_at |-> "datetime",
     agency_name |-> <<"A", "c", "m", "e">>]

\* the package dicts of a batch
BatchListings == DirectListings \cup {ListingWithAgencyName}

\* the mapped attributes of TravelPackage other than agency_id
MappedColumns ==
    {"id", "package_title", "package_id_external", "url", "price_in_inr",
     "original_price", "currency", "price_per_person", "duration_days",
     "duration_nights", "destinations", "countries", "inclusions",
     "exclusions", "highlights", "itinerary_daywise", "rating",
     "reviews_count", "hotel_star", "transport_type", "group_size_min",
     "group_size_max", "best_for", "source_confidence_score", "scraped_at",
     "is_active", "created_at", "updated_at", "agency"}

\* TravelPackage(agency_id=agency_id, **pkg_data) raises TypeError: the
\* declarative constructor refuses a keyword that is not a mapped attribute
ConstructorRaises(pkg_data) == DOMAIN pkg_data \ MappedColumns # {}

\* TravelPackage(agency_id=agency_id, **pkg_data)
TravelPackage(agency_id, pkg_data) ==
    [agency_id |-> agency_id,
     package_title |-> pkg_data.package_title,
     url |-> pkg_data.url,
     price_in_inr |-> pkg_data.price_in_inr,
     duration_days |-> pkg_data.duration_days,
     destinations |-> pkg_data.destinations,
     scraped_at |-> pkg_data.scraped_at]

\* The rows a db.query(...) sees: SessionLocal is made with autoflush=False,
\* so objects added with db.add() and not yet committed are not flushed
\* before the SELECT and stay invisible to it.
QueryRows(committed, pending) == committed

\* len(pkg_data["url"]) > 10
PlaceholderLen == 10

\* the URL check without the filter on agency_id
ExistingUrlAnyAgency(rows, agency_id, pkg_data) ==
    /\ pkg_data.url # EmptyStr
    /\ Len(pkg_data.url) > PlaceholderLen
    /\ \E i \in DOMAIN rows : rows[i].url = pkg_data.url

\* query.filter(TravelPackage.url == pkg_data["url"]).first() is not None
ExistingUrl(rows, agency_id, pkg_data) ==
    /\ pkg_data.url # EmptyStr
    /\ Len(pkg_data.url) > PlaceholderLen
    /\ \E i \in DOMAIN rows :
          /\ rows[i].agency_id = agency_id
          /\ rows[i].url = pkg_data.url

\* query.filter(package_title == ..., duration_days == ...).first() is not None
ExistingTitle(rows, agency_id, pkg_data) ==
    /\ pkg_data.package_title # EmptyStr
    /\ \E i \in DOMAIN rows :
          /\ rows[i].agency_id = agency_id
          /\ rows[i].package_title = pkg_data.package_title
          /\ rows[i].duration_days = pkg_data.duration_days

\* The loop of bulk_create_packages ends by the exception of the
\* constructor: a record that is not skipped as a duplicate cannot be built.
\* Nothing in the loop catches it.
RECURSIVE LoopRaises(_, _, _, _)
LoopRaises(committed, pending, agency_id, packages) ==
    IF packages = <<>> THEN FALSE
    ELSE LET pkg_data == Head(packages)
             rows == QueryRows(committed, pending)
         IN  IF \/ ExistingUrl(rows, agency_id, pkg_data)
                \/ ExistingTitle(rows, agency_id, pkg_data)
             THEN LoopRaises(committed, pending, agency_id, Tail(packages))
             ELSE \/ ConstructorRaises(pkg_data)
                  \/ LoopRaises(committed,
                                Append(pending, TravelPackage(agency_id, pkg_data)),
                                agency_id, Tail(packages))

\* The loop of bulk_create_packages: the objects db.add()-ed, in order.
RECURSIVE AddedBy(_, _, _, _)
AddedBy(committed, pending, agency_id, packages) ==
    IF packages = <<>> THEN pending
    ELSE LET pkg_data == Head(packages)
             rows == QueryRows(committed, pending)
         IN  IF \/ ExistingUrl(rows, agency_id, pkg_data)
                \/ ExistingTitle(rows, agency_id, pkg_data)
             THEN AddedBy(committed, pending, agency_id, Tail(packages))
             ELSE AddedBy(committed,
                          Append(pending, TravelPackage(agency_id, pkg_data)),
                          agency_id, Tail(packages))

\* db.commit() flushes the pending INSERTs.  The DateTime column scraped_at
\* takes a datetime object on every dialect; an ISO-format string is refused
\* by the SQLite dialect's bind processor and cast by the server elsewhere.
CommitRaises(db_dialect, pending) ==
    /\ db_dialect = "sqlite"
    /\ \E i \in DOMAIN pending : pending[i].scraped_at = "isoformat"

\* bulk_create_packages(db, agency_id, packages): the outcome of the call
\*   rows    the committed table afterwards
\*   created the value returned (number of objects added)
\*   raised  TRUE when the constructor or db.commit() raised (nothing of
\*           the call is committed: the transaction is rolled back)
bulk_create_packages(db_dialect, committed, agency_id, packages) ==
    LET pending == AddedBy(committed, <<>>, agency_id, packages)
        created == Len(pending)
    IN  IF LoopRaises(committed, <<>>, agency_id, packages)
        THEN [rows |-> committed, created |-> 0, raised |-> TRUE]
        ELSE IF created > 0 /\ CommitRaises(db_dialect, pending)
        THEN [rows |-> committed, created |-> 0, raised |-> TRUE]
        ELSE [rows |-> committed \o pending, created |-> created, raised |-> FALSE]

-----------------------------------------------------------------------------
(* tools/normalizer.py : DataNormalizer *)

\* A loosely-typed Python value found under a key of the raw dict:
\*   "missing"  the key is absent or holds None
\*   "str"      a string (field str)
\*   "int"      a number (field num)
\*   "list"     a non-empty list, i.e. a truthy object that is neither
PyMissing == [kind |-> "missing", str |-> <<>>, num |-> 0]
PyStr(s) == [kind |-> "str", str |-> s, num |-> 0]
PyInt(n) == [kind |-> "int", str |-> <<>>, num |-> n]
PyList == [kind |-> "list", str |-> <<>>, num |-> 0]

\* bool(v) is False
Falsy(v) ==
    \/ v.kind = "missing"
    \/ v.kind = "str" /\ v.str = <<>>
    \/ v.kind = "int" /\ v.num = 0

\* "Untitled Package"
UntitledPackage ==
    <<"U", "n", "t", "i", "t", "l", "e", "d", " ",
      "P", "a", "c", "k", "a", "g", "e">>

TitleLimit == 200
TitleKept == 197

\* _clean_title without the " ".join(title.split()) line
_clean_title_no_collapse(title) ==
    IF Falsy(title) THEN [raised |-> FALSE, val |-> UntitledPackage]
    ELSE IF title.kind # "str" THEN [raised |-> TRUE, val |-> <<>>]
    ELSE [raised |-> FALSE, val |-> StrTitle(title.str)]

\* _clean_title(title): raised is TRUE when title.split() raises
\* AttributeError (title is a truthy non-string)
_clean_title(title) ==
    IF Falsy(title) THEN [raised |-> FALSE, val |-> UntitledPackage]
    ELSE IF title.kind # "str" THEN [raised |-> TRUE, val |-> <<>>]
    ELSE LET t == StrTitle(CollapseWhitespace(title.str))
         IN  [raised |-> FALSE,
              val |-> IF Len(t) > TitleLimit
                      THEN SubSeq(t, 1, TitleKept) \o <<".", ".", ".">>
                      ELSE t]

\* the characters re.sub(r'[₹$€,\s]', '', price) removes
PriceNoise == {"$", ","} \cup Whitespace

\* float(s) for the strings of the model's alphabet: the value of a
\* non-empty digit string, ValueError (FALSE) otherwise
IsDigitString(s) == s # <<>> /\ \A i \in DOMAIN s : s[i] \in Digits

\* _parse_price(price), in whole rupees
_parse_price(price) ==
    IF price.kind = "int" THEN price.num
    ELSE IF price.kind = "str"
    THEN LET cleaned == SelectSeq(price.str, LAMBDA c : c \notin PriceNoise)
         IN  IF IsDigitString(cleaned) THEN DecimalValue(cleaned) ELSE 0
    ELSE 0

\* re.search(r'(\d+)', s): the first maximal run of digits, <<>> if none
RECURSIVE DigitRunFrom(_, _)
DigitRunFrom(s, i) ==
    IF i > Len(s) \/ s[i] \notin Digits THEN <<>>
    ELSE <<s[i]>> \o DigitRunFrom(s, i + 1)

FirstDigitRun(s) ==
    IF \E i \in DOMAIN s : s[i] \in Digits
    THEN LET first == CHOOSE i \in DOMAIN s :
                        /\ s[i] \in Digits
                        /\ \A j \in 1..(i - 1) : s[j] \notin Digits
         IN  DigitRunFrom(s, first)
    ELSE <<>>

\* _parse_duration(duration)
_parse_duration(duration) ==
    IF duration.kind = "int" THEN duration.num
    ELSE IF duration.kind = "str"
    THEN LET run == FirstDigitRun(duration.str)
         IN  IF run # <<>> THEN DecimalValue(run) ELSE 0
    ELSE 0

\* the loop shared by _normalize_destinations and _normalize_list, run over
\* the already cleaned items: drop the empty ones and the ones already kept
RECURSIVE KeepFirstSeen(_, _)
KeepFirstSeen(items, cleaned) ==
    IF items = <<>> THEN cleaned
    ELSE LET item == Head(items)
         IN  IF item # <<>> /\ \A i \in DOMAIN cleaned : cleaned[i] # item
             THEN KeepFirstSeen(Tail(items), Append(cleaned, item))
             ELSE KeepFirstSeen(Tail(items), cleaned)

\* the separators of re.split(r'[,\-→>]', destinations)
DestinationSeparators == {",", "-", ">"}

\* A destinations / inclusions value: kind "missing", "str" (field str),
\* "list" (field items, a list of strings) or "other" (a truthy non-list)
NoItems == [kind |-> "missing", str |-> <<>>, items |-> <<>>]
ItemList(items) == [kind |-> "list", str |-> <<>>, items |-> items]
ItemStr(s) == [kind |-> "str", str |-> s, items |-> <<>>]
ItemOther == [kind |-> "other", str |-> <<>>, items |-> <<>>]

FalsyItems(v) ==
    \/ v.kind = "missing"
    \/ v.kind = "str" /\ v.str = <<>>
    \/ v.kind = "list" /\ v.items = <<>>

\* _normalize_destinations(destinations)
_normalize_destinations(destinations) ==
    IF FalsyItems(destinations) THEN <<>>
    ELSE IF destinations.kind = "other" THEN <<>>
    ELSE LET items == IF destinations.kind = "str"
                      THEN SplitOn(destinations.str, DestinationSeparators)
                      ELSE destinations.items
         IN  KeepFirstSeen([i \in DOMAIN items |-> StrTitle(StrStrip(items[i]))], <<>>)

\* _normalize_list(items)
_normalize_list(items) ==
    IF FalsyItems(items) THEN <<>>
    ELSE IF items.kind = "other" THEN <<>>
    ELSE LET list == IF items.kind = "str" THEN <<items.str>> ELSE items.items
         IN  KeepFirstSeen([i \in DOMAIN list |-> StrStrip(list[i])], <<>>)

MinPrice == 1000
MaxPrice == 10000000
MinDays == 1
MaxDays == 90

\* _validate_package without the price and duration checks
_validate_package_lenient(package) ==
    /\ package.package_title # <<>>
    /\ package.destinations # <<>>

\* _validate_package(package)
_validate_package(package) ==
    /\ package.package_title # <<>>
    /\ ~(package.price_in_inr <= 0)
    /\ ~(package.duration_days <= 0)
    /\ package.destinations # <<>>
    /\ ~(package.price_in_inr < MinPrice \/ package.price_in_inr > MaxPrice)
    /\ ~(package.duration_days < MinDays \/ package.duration_days > MaxDays)

\* normalize_package(raw_package, agency_id): <<>> for None, else <<package>>
normalize_package(raw, agency_id) ==
    LET title == _clean_title(raw.title)
        package == [agency_id |-> agency_id,
                    package_title |-> title.val,
                    url |-> raw.url,
                    price_in_inr |-> _parse_price(raw.price_inr),
                    duration_days |-> _parse_duration(raw.duration_days),
                    destinations |-> _normalize_destinations(raw.destinations),
                    inclusions |-> _normalize_list(raw.inclusions),
                    exclusions |-> _normalize_list(raw.exclusions),
                    highlights |-> _normalize_list(raw.highlights),
                    scraped_at |-> "datetime",
                    is_active |-> TRUE]
    IN  IF title.raised THEN <<>>
        ELSE IF ~_validate_package(package) THEN <<>>
        ELSE <<package>>

\* normalize_packages_batch(raw_packages, agency_id)
RECURSIVE normalize_packages_batch(_, _)
normalize_packages_batch(raw_packages, agency_id) ==
    IF raw_packages = <<>> THEN <<>>
    ELSE normalize_package(Head(raw_packages), agency_id)
             \o normalize_packages_batch(Tail(raw_packages), agency_id)

-----------------------------------------------------------------------------
(* tools/llm_helper.py : GeminiLLM, the extraction tiers *)

\* a or b (Python): a when a is truthy, else b
PyOr(a, b) == IF Falsy(a) THEN b ELSE a

\* float(v) / int(v) inside try/except: 0 when the conversion raises
NumberOrZero(v) ==
    IF v.kind = "int" THEN v.num
    ELSE IF v.kind = "str" /\ IsDigitString(v.str) THEN DecimalValue(v.str)
    ELSE 0

\* source_confidence_score written by _clean_packages, in hundredths
GeminiConfidence == 80

\* One element of the JSON array the model returned.  kind is "object" for
\* a JSON object and "other" for anything without .get (number, string, ...)
\* title.strip() raises for a truthy title that is not a string.
CleanRaises(pkg) ==
    \/ pkg.kind # "object"
    \/ LET title == PyOr(PyOr(pkg.package_title, pkg.title), PyStr(<<>>))
       IN  title.kind # "str"

\* the dict _clean_packages appends for one element
CleanOne(pkg) ==
    LET title == PyOr(PyOr(pkg.package_title, pkg.title), PyStr(<<>>))
        price == PyOr(PyOr(pkg.price_in_inr, pkg.price_inr), PyInt(0))
        days == PyOr(pkg.duration_days, PyInt(0))
    IN  [package_title |-> StrStrip(title.str),
         price_in_inr |-> NumberOrZero(price),
         duration_days |-> NumberOrZero(days),
         destinations |-> IF pkg.destinations.kind = "list"
                          THEN pkg.destinations.items ELSE <<>>,
         url |-> pkg.url,
         scraped_at |-> "isoformat",
         source_confidence_score |-> <<GeminiConfidence>>]

\* _clean_packages(packages); defined when no element makes it raise
_clean_packages(packages) == [i \in DOMAIN packages |-> CleanOne(packages[i])]

\* the words of is_tour_title
TourWords ==
    {<<"t", "o", "u", "r">>, <<"t", "r", "i", "p">>,
     <<"p", "a", "c", "k", "a", "g", "e">>, <<"c", "a", "m", "p">>,
     <<"t", "r", "e", "k">>,
     <<"e", "x", "p", "e", "d", "i", "t", "i", "o", "n">>,
     <<"m", "a", "n", "a", "l", "i">>, <<"g", "o", "a">>}

known_places ==
    << <<"M", "a", "n", "a", "l", "i">>, <<"K", "a", "s", "o", "l">>,
       <<"J", "a", "i", "p", "u", "r">>, <<"U", "d", "a", "i", "p", "u", "r">>,
       <<"J", "o", "d", "h", "p", "u", "r">>, <<"G", "o", "a">>,
       <<"D", "e", "l", "h", "i">>, <<"S", "h", "i", "m", "l", "a">>,
       <<"K", "u", "l", "l", "u">>,
       <<"A", "m", "r", "i", "t", "s", "a", "r">>, <<"D", "u", "b", "a", "i">>,
       <<"A", "b", "u", " ", "D", "h", "a", "b", "i">>,
       <<"K", "e", "r", "a", "l", "a">>,
       <<"R", "i", "s", "h", "i", "k", "e", "s", "h">>, <<"L", "e", "h">>,
       <<"L", "a", "d", "a", "k", "h">> >>

\* _guess_destinations_from_title(title)
_guess_destinations_from_title(title) ==
    SelectSeq(known_places, LAMBDA place : Contains(StrLower(title), StrLower(place)))

\* One candidate card of the page, as BeautifulSoup presents it:
\*   has_header  card.find(['h2','h3','h4','h5']) found an element
\*   header      its text, stripped
\*   links       the stripped texts of the card's <a> elements, in order
\*   price       the number after the first currency match in the text, or 0
\*   duration    the number of the first "N days/nights" match, or 0
\*   has_href    card.find('a', href=True) found an element
\*   href        its href
MinLinkText == 10
MinCardTitle == 5
MaxCardPackages == 20

\* the title the DOM tier picks for a card
CardTitle(card) ==
    IF card.has_header THEN card.header
    ELSE LET long == SelectSeq(card.links, LAMBDA l : Len(l) > MinLinkText)
         IN  IF long = <<>> THEN <<>> ELSE long[1]

\* any(w in title.lower() for w in [...])
is_tour_title(title) == \E w \in TourWords : Contains(StrLower(title), w)

\* the link the DOM tier stores for a card
CardLink(card, url) ==
    IF ~card.has_href THEN url
    ELSE IF StartsWith(card.href, <<"h", "t", "t", "p">>) THEN card.href
    ELSE IF EndsWith(url, <<"/">>) THEN url \o LStrip(card.href, "/")
    ELSE url \o <<"/">> \o LStrip(card.href, "/")

\* the loop over card_candidates of _fallback_extract_packages
RECURSIVE CardPackages(_, _, _)
CardPackages(cards, url, packages) ==
    IF cards = <<>> \/ Len(packages) >= MaxCardPackages THEN packages
    ELSE LET card == Head(cards)
             title == CardTitle(card)
             pkg == [package_title |-> title,
                     price_in_inr |-> card.price,
                     duration_days |-> card.duration,
                     destinations |-> _guess_destinations_from_title(title),
                     url |-> CardLink(card, url),
                     scraped_at |-> "isoformat",
                     source_confidence_score |-> <<>>]
         IN  IF title = <<>> \/ Len(title) < MinCardTitle
             THEN CardPackages(Tail(cards), url, packages)
             ELSE IF /\ is_tour_title(title)
                     /\ \A i \in DOMAIN packages : packages[i].package_title # title
             THEN CardPackages(Tail(cards), url, Append(packages, pkg))
             ELSE CardPackages(Tail(cards), url, packages)

MinLooseTitle == 10
MaxLoosePackages == 15

\* unique_titles of _fallback_regex_global: first occurrences longer than 10
RECURSIVE UniqueTitles(_, _)
UniqueTitles(titles, unique) ==
    IF titles = <<>> THEN unique
    ELSE IF /\ \A i \in DOMAIN unique : unique[i] # Head(titles)
            /\ Len(Head(titles)) > MinLooseTitle
    THEN UniqueTitles(Tail(titles), Append(unique, Head(titles)))
    ELSE UniqueTitles(Tail(titles), unique)

\* _fallback_regex_global(html, url): page.titles, page.prices and
\* page.durations are the matches of the three regular expressions in the
\* flattened text, in order
_fallback_regex_global(page, url) ==
    LET unique == UniqueTitles(page.titles, <<>>)
        first == SubSeq(unique, 1, IF Len(unique) < MaxLoosePackages
                                   THEN Len(unique) ELSE MaxLoosePackages)
    IN  [i \in DOMAIN first |->
            [package_title |-> first[i],
             price_in_inr |-> IF i <= Len(page.prices) THEN page.prices[i] ELSE 0,
             duration_days |-> IF i <= Len(page.durations)
                               THEN page.durations[i] ELSE 0,
             destinations |-> _guess_destinations_from_title(first[i]),
             url |-> url,
             scraped_at |-> "isoformat",
             source_confidence_score |-> <<>>]]

\* _fallback_extract_packages returning the DOM result also when it is empty
fallback_dom_only(page, url) ==
    [tiers |-> <<"dom">>, packages |-> CardPackages(page.cards, url, <<>>)]

\* _fallback_extract_packages(html, url): the tier that answered and its
\* packages; page.cards are the card candidates
_fallback_extract_packages(page, url) ==
    LET packages == CardPackages(page.cards, url, <<>>)
    IN  IF packages = <<>>
        THEN [tiers |-> <<"dom", "regex">>,
              packages |-> _fallback_regex_global(page, url)]
        ELSE [tiers |-> <<"dom">>, packages |-> packages]

-----------------------------------------------------------------------------
(* tools/scraper_engine.py : ScraperEngine *)

\* a backoff that grows by one instead of doubling
PowLinear(n) == n + 1

\* 2 ** n
RECURSIVE Pow2(_)
Pow2(n) == IF n = 0 THEN 1 ELSE 2 * Pow2(n - 1)

\* the engine the launch branch of __aenter__ picks for a browser_type
LaunchedEngine(btype) ==
    IF btype = "chromium" THEN "chromium"
    ELSE IF btype = "firefox" THEN "firefox"
    ELSE "webkit"

\* __aenter__ with fallback_mode left untouched when the launch fails
aenter_keeps_mode(btype, start_ok, launch_ok) ==
    IF start_ok /\ launch_ok
    THEN [browser |-> LaunchedEngine(btype), fallback_mode |-> "playwright",
          entered |-> "ok"]
    ELSE [browser |-> "none", fallback_mode |-> "playwright",
          entered |-> IF start_ok THEN "launch_failed" ELSE "start_failed"]

\* __aenter__: start_ok is async_playwright().start() succeeding, launch_ok
\* the browser launch succeeding
aenter(btype, start_ok, launch_ok) ==
    IF ~start_ok
    THEN [browser |-> "none", fallback_mode |-> "requests",
          entered |-> "start_failed"]
    ELSE IF ~launch_ok
    THEN [browser |-> "none", fallback_mode |-> "requests",
          entered |-> "launch_failed"]
    ELSE [browser |-> LaunchedEngine(btype), fallback_mode |-> "playwright",
          entered |-> "ok"]

\* What one fetch attempt can do.
\* Requests mode (_fetch_html_requests):
\*   "ok"        the GET succeeds
\*   "ssl_ok"    SSLError, then the GET with verify=False succeeds
\*   "ssl_fail"  SSLError, then the GET with verify=False raises
\*   "http_error" the GET or raise_for_status raises another exception
\* Playwright mode:
\*   "ok"        new_page, goto, wait, content and close all succeed
\*   "no_page"   browser.new_page raises
\*   "timeout"   page.goto raises PlaywrightTimeout
\*   "nav_error" page.goto / page.content raises another exception
RequestsOutcomes == {"ok", "ssl_ok", "ssl_fail", "http_error"}
PlaywrightOutcomes == {"ok", "no_page", "timeout", "nav_error"}

FetchOutcomes(b) == IF b = "none" THEN RequestsOutcomes ELSE PlaywrightOutcomes

FetchSucceeds(outcome) == outcome \in {"ok", "ssl_ok"}

\* pages left open by one attempt: the page is closed on the success path only
PagesLeaked(b, outcome) ==
    IF b # "none" /\ outcome \in {"timeout", "nav_error"} THEN 1 ELSE 0

\* The except clause that takes the exception of a failed attempt:
\* "timeout" (except PlaywrightTimeout), "generic" (except Exception)
Handler(outcome) == IF outcome = "timeout" THEN "timeout" ELSE "generic"

\* the handlers without the assignment to result["error"]
on_fetch_exception_silent(res, outcome) == res

\* result after the handler ran: error is "timeout" or str(e)
on_fetch_exception(res, outcome) ==
    IF Handler(outcome) = "timeout"
    THEN [res EXCEPT !.error = "timeout"]
    ELSE [res EXCEPT !.error = outcome]

\* the result dict scrape_agency starts from
InitialResult(mode) ==
    [success |-> FALSE, packages |-> <<>>, error |-> "None",
     html_length |-> 0, mode |-> mode]

-----------------------------------------------------------------------------
(* Specification SpecBulk: callers of bulk_create_packages *)

\* the normalizer is not running
NormIdle ==
    /\ raw_package = <<>>
    /\ normalized = <<>>
    /\ norm_pc = "idle"

\* no rank_packages call is made
RankIdle ==
    /\ candidates = <<>>
    /\ parsed_intent = <<>>
    /\ max_results = 0
    /\ scored_packages = <<>>
    /\ ranked = <<>>
    /\ rank_pc = "idle"

\* no concurrent bulk_create_packages calls are made
SessionsIdle == sessions = <<>>

\* no IntentParser.parse call is made
ParseIdle ==
    /\ query = <<>>
    /\ parse_result = <<>>
    /\ parse_pc = "idle"

\* no create_plan call is made
PlanIdle ==
    /\ plan_intent = <<>>
    /\ plan = <<>>
    /\ plan_pc = "idle"

\* no scrape_multiple_agencies call is made
MultiIdle ==
    /\ agencies = <<>>
    /\ max_concurrent = 0
    /\ batch_i = 0
    /\ tasks = <<>>
    /\ task_results = <<>>
    /\ results = <<>>
    /\ multi_pc = "idle"

\* no ScraperEngine exists
ScrapeIdle ==
    /\ browser_type = "chromium"
    /\ max_retries = 0
    /\ browser = "none"
    /\ fallback_mode = "playwright"
    /\ entered = "not_yet"
    /\ scrape_pc = "idle"
    /\ scrape_args = <<>>
    /\ attempt = 0
    /\ result = <<>>
    /\ html = <<>>
    /\ llm_attempt = 0
    /\ fetched = "none"
    /\ gemini_log = <<>>
    /\ tier_log = <<>>
    /\ wait = 0
    /\ pages_open = 0

InitBulk ==
    /\ dialect \in Dialects
    /\ table = <<>>
    /\ calls = <<>>
    /\ agency_counts = NoCounts
    /\ NormIdle
    /\ ScrapeIdle
    /\ RankIdle
    /\ MultiIdle
    /\ PlanIdle
    /\ ParseIdle
    /\ SessionsIdle

\* one call bulk_create_packages(db, agency_id, packages)
BulkCreate ==
    /\ Len(calls) < MaxCalls
    /\ \E agency_id \in Agencies, packages \in SeqsUpTo(BatchListings, MaxBatch) :
          LET out == bulk_create_packages(dialect, table, agency_id, packages)
          IN  /\ table' = out.rows
              /\ calls' = Append(calls, [agency_id |-> agency_id,
                                         packages |-> packages,
                                         created |-> out.created,
                                         raised |-> out.raised])
    /\ UNCHANGED <<dialect, agency_counts, normVars, engineVars, scrapeVars,
                   rankVars, multiVars, planVars,
                   parseVars, sessions>>

NextBulk == BulkCreate

SpecBulk == InitBulk /\ [][NextBulk]_vars

-----------------------------------------------------------------------------
(* Specification SpecNorm: normalize_package applied to a raw listing *)

TitleAlphabet == {"a", "B", " "}
PriceAlphabet == {"2", "0", ",", "$", "x"}
DurationAlphabet == {"3", "9", "D", " "}

RawTitles ==
    {PyMissing, PyInt(7), PyList}
        \cup {PyStr(t) : t \in SeqsUpTo(TitleAlphabet, MaxTitleLen)}

RawPrices ==
    {PyMissing, PyList, PyInt(0), PyInt(500), PyInt(5000), PyInt(MaxPrice + 1)}
        \cup {PyStr(p) : p \in SeqsUpTo(PriceAlphabet, MaxPriceLen)}

RawDurations ==
    {PyMissing, PyList, PyInt(0), PyInt(3), PyInt(MaxDays + 1)}
        \cup {PyStr(d) : d \in SeqsUpTo(DurationAlphabet, MaxDurationLen)}

RawItemLists ==
    {NoItems, ItemOther, ItemList(<<>>),
     ItemList(<< <<"a", "b">> >>),
     ItemList(<< <<" ", "a", "b">>, <<"A", "B">>, <<" ">> >>),
     ItemStr(<<"a", ",", "b", "-", "a">>),
     ItemStr(<<",">>)}

\* a title that passes every check: "ab aba"
GoodTitle == PyStr(<<"a", "b", " ", "a", "b", "a">>)
GoodItems == ItemList(<< <<"a", "b">> >>)

\* raw listings: each field ranges over its whole set while the others
\* range over a few values
\* raw URLs: none, absolute ones, a path relative to the listing page
\* ("/goa"), one without a network location ("http:///x") and one of
\* another scheme ("ftp://a.in")
UrlSecure == <<"h", "t", "t", "p", "s", ":", "/", "/", "a", ".", "i", "n">>
UrlRelative == <<"/", "g", "o", "a">>
UrlNoNetloc == <<"h", "t", "t", "p", ":", "/", "/", "/", "x">>
UrlFtp == <<"f", "t", "p", ":", "/", "/", "a", ".", "i", "n">>
RawUrls == {EmptyStr, UrlLong, UrlSecure, UrlRelative, UrlNoNetloc, UrlFtp}

\* the confidence a raw listing carries, in hundredths: none, the 0.8 of the
\* Gemini tier, 0.3, 0 and one above 1
RawConfidences == {<<>>, <<80>>, <<30>>, <<0>>, <<120>>}

RawListings ==
    [title : RawTitles, price_inr : {PyInt(0), PyInt(5000)},
     duration_days : {PyInt(0), PyInt(3)}, destinations : {GoodItems},
     inclusions : {NoItems}, exclusions : {NoItems}, highlights : {NoItems},
     url : {UrlLong}, source_confidence_score : {<<>>}]
    \cup
    [title : {GoodTitle, PyStr(<<"a", "b">>)}, price_inr : RawPrices,
     duration_days : {PyInt(0), PyInt(3)}, destinations : {GoodItems},
     inclusions : {NoItems}, exclusions : {NoItems}, highlights : {NoItems},
     url : {UrlLong}, source_confidence_score : {<<>>}]
    \cup
    [title : {GoodTitle}, price_inr : {PyInt(0), PyInt(5000)},
     duration_days : RawDurations, destinations : {GoodItems},
     inclusions : {NoItems}, exclusions : {NoItems}, highlights : {NoItems},
     url : {UrlLong}, source_confidence_score : {<<>>}]
    \cup
    [title : {GoodTitle}, price_inr : {PyInt(5000)},
     duration_days : {PyInt(3)}, destinations : RawItemLists,
     inclusions : RawItemLists, exclusions : {NoItems}, highlights : {NoItems},
     url : {EmptyStr, UrlLong}, source_confidence_score : {<<>>}]
    \cup
    [title : {GoodTitle}, price_inr : {PyInt(5000)},
     duration_days : {PyInt(3)}, destinations : {GoodItems},
     inclusions : {NoItems}, exclusions : {NoItems}, highlights : {NoItems},
     url : RawUrls, source_confidence_score : RawConfidences]

\* no bulk_create_packages call is made
StoreIdle ==
    /\ dialect = "sqlite"
    /\ table = <<>>
    /\ calls = <<>>
    /\ agency_counts = NoCounts

InitNorm ==
    /\ StoreIdle
    /\ ScrapeIdle
    /\ RankIdle
    /\ MultiIdle
    /\ PlanIdle
    /\ ParseIdle
    /\ SessionsIdle
    /\ raw_package \in RawListings
    /\ normalized = <<>>
    /\ norm_pc = "input"

\* one call normalize_package(raw_package, agency_id)
Normalize ==
    /\ norm_pc = "input"
    /\ \E agency_id \in Agencies :
          normalized' = normalize_package(raw_package, agency_id)
    /\ norm_pc' = "done"
    /\ UNCHANGED <<raw_package, storeVars, engineVars, scrapeVars,
                   rankVars, multiVars, planVars,
                   parseVars, sessions>>

NextNorm == Normalize

SpecNorm == InitNorm /\ [][NextNorm]_vars

-----------------------------------------------------------------------------
(* tools/llm_helper.py : extract_packages_from_html, one loop iteration *)

\* max_retries and base_delay of extract_packages_from_html
GeminiMaxRetries == 3
GeminiBaseDelay == 5

\* What model.generate_content / json.loads can do in one iteration:
\*   "rate_limit"   generate_content raises, the message holds 429 or quota
\*   "error"        generate_content raises another exception
\*   "bad_json"     json.loads raises JSONDecodeError
\*   "bad_json_429" json.loads raises JSONDecodeError and the message, which
\*                  quotes the position of the error, holds the digits 429
\*   "non_list"     the text is valid JSON and not an array
\*   "list"         the text is a JSON array, data holds its elements
ResponseKinds ==
    {"rate_limit", "error", "bad_json", "bad_json_429", "non_list", "list"}

\* "429" in error_str or "quota" in error_str.lower()
IsRateLimitText(kind) == kind \in {"rate_limit", "bad_json_429"}

\* the iteration with the non-list branch leaving the loop
gemini_step_strict(resp) ==
    IF resp.kind = "list"
    THEN IF \E i \in DOMAIN resp.data : CleanRaises(resp.data[i])
         THEN "break" ELSE "return"
    ELSE IF resp.kind = "non_list" THEN "break"
    ELSE IF IsRateLimitText(resp.kind) THEN "backoff"
    ELSE "break"

\* the iteration with an empty array sent to the fallback
gemini_step_nonempty(resp) ==
    IF resp.kind = "list"
    THEN IF \E i \in DOMAIN resp.data : CleanRaises(resp.data[i])
         THEN "break"
         ELSE IF resp.data = <<>> THEN "break" ELSE "return"
    ELSE IF resp.kind = "non_list" THEN "continue"
    ELSE IF IsRateLimitText(resp.kind) THEN "backoff"
    ELSE "break"

\* One iteration of the for loop of extract_packages_from_html:
\*   "return"   the cleaned list is returned
\*   "continue" the iteration ends and the loop goes on at once
\*   "backoff"  the handler sleeps and the loop goes on
\*   "break"    the handler leaves the loop
gemini_step(resp) ==
    IF resp.kind = "list"
    THEN IF \E i \in DOMAIN resp.data : CleanRaises(resp.data[i])
         THEN "break" ELSE "return"
    ELSE IF resp.kind = "non_list" THEN "continue"
    ELSE IF IsRateLimitText(resp.kind) THEN "backoff"
    ELSE "break"

-----------------------------------------------------------------------------
(* Inputs of a scrape *)

TitleManaliTour ==
    <<"M", "a", "n", "a", "l", "i", " ", "T", "r", "e", "k", " ",
      "T", "o", "u", "r">>
TitleAboutUs == <<"A", "b", "o", "u", "t", " ", "u", "s">>
TextBookNow == <<"B", "o", "o", "k", " ", "n", "o", "w">>
PlaceGoa == <<"G", "o", "a">>
HrefRelative == <<"/", "g", "o", "a">>
HrefAbsolute == <<"h", "t", "t", "p", ":", "/", "/", "b", ".", "i", "n">>

\* agency.url: "http://a.in" and "http://a.in/"
UrlAgency == <<"h", "t", "t", "p", ":", "/", "/", "a", ".", "i", "n">>
UrlAgencySlash == UrlAgency \o <<"/">>
AgencyUrls == {UrlAgency, UrlAgencySlash}

CardHeader ==
    [has_header |-> TRUE, header |-> TitleGoaTrip, links |-> <<>>,
     price |-> 5000, duration |-> 3, has_href |-> TRUE, href |-> HrefRelative]
CardLinkOnly ==
    [has_header |-> FALSE, header |-> <<>>,
     links |-> <<TextBookNow, TitleManaliTour>>,
     price |-> 0, duration |-> 0, has_href |-> TRUE, href |-> HrefAbsolute]
CardNotTour ==
    [has_header |-> TRUE, header |-> TitleAboutUs, links |-> <<>>,
     price |-> 0, duration |-> 0, has_href |-> FALSE, href |-> <<>>]
CardShort ==
    [has_header |-> TRUE, header |-> PlaceGoa, links |-> <<TitleManaliTour>>,
     price |-> 5000, duration |-> 3, has_href |-> FALSE, href |-> <<>>]

\* a page with package cards, one a repeat
PageCards ==
    [length |-> 900,
     cards |-> <<CardHeader, CardNotTour, CardLinkOnly, CardHeader>>,
     titles |-> <<TitleManaliTour>>, prices |-> <<5000>>, durations |-> <<3>>]
\* a page whose cards give nothing and whose text holds titles
PageLoose ==
    [length |-> 400,
     cards |-> <<CardNotTour, CardShort>>,
     titles |-> <<TitleManaliTour, TitleGoaTrip, TitleManaliTour>>,
     prices |-> <<7000>>, durations |-> <<>>]
\* a page with nothing to extract
PageBare ==
    [length |-> 40, cards |-> <<>>, titles |-> <<>>, prices |-> <<>>,
     durations |-> <<>>]
Pages == {PageCards, PageLoose, PageBare}

\* elements of the JSON array
ElementGood ==
    [kind |-> "object",
     package_title |-> PyStr(<<" ">> \o TitleGoaTrip), title |-> PyMissing,
     price_in_inr |-> PyInt(5000), price_inr |-> PyMissing,
     duration_days |-> PyInt(3), destinations |-> ItemList(<<PlaceGoa>>),
     url |-> HrefRelative]
ElementOtherKeys ==
    [kind |-> "object",
     package_title |-> PyMissing, title |-> PyStr(TitleManaliTour),
     price_in_inr |-> PyMissing, price_inr |-> PyStr(<<"7", "0", "0">>),
     duration_days |-> PyStr(<<"3", "D">>), destinations |-> ItemStr(PlaceGoa),
     url |-> EmptyStr]
ElementBlankTitle ==
    [kind |-> "object",
     package_title |-> PyStr(<<" ">>), title |-> PyMissing,
     price_in_inr |-> PyInt(5000), price_inr |-> PyMissing,
     duration_days |-> PyInt(3), destinations |-> ItemList(<<PlaceGoa>>),
     url |-> EmptyStr]
ElementNumberTitle ==
    [kind |-> "object",
     package_title |-> PyInt(7), title |-> PyMissing,
     price_in_inr |-> PyInt(5000), price_inr |-> PyMissing,
     duration_days |-> PyInt(3), destinations |-> ItemList(<<PlaceGoa>>),
     url |-> EmptyStr]
ElementNotObject ==
    [kind |-> "other",
     package_title |-> PyMissing, title |-> PyMissing,
     price_in_inr |-> PyMissing, price_inr |-> PyMissing,
     duration_days |-> PyMissing, destinations |-> NoItems,
     url |-> EmptyStr]
GeminiElements ==
    {ElementGood, ElementOtherKeys, ElementBlankTitle, ElementNumberTitle,
     ElementNotObject}

GeminiResponses ==
    {[kind |-> k, data |-> <<>>] : k \in ResponseKinds \ {"list"}}
        \cup {[kind |-> "list", data |-> d] :
                 d \in SeqsUpTo(GeminiElements, MaxItems)}

BrowserTypes == {"chromium", "firefox", "webkit"}

\* _fallback_extract_packages(html, url) for every page and URL of the model
FallbackOf ==
    [page \in Pages, url \in AgencyUrls |->
        _fallback_extract_packages(page, url)]

\* the iteration of extract_packages_from_html for every response of the
\* model: what gemini_step does and, when it returns, the cleaned list
IterationOf ==
    [resp \in GeminiResponses |->
        [step |-> gemini_step(resp),
         cleaned |-> IF gemini_step(resp) = "return"
                     THEN _clean_packages(resp.data) ELSE <<>>]]

-----------------------------------------------------------------------------
(* Specification SpecScrape: one ScraperEngine and one scrape_agency call *)

InitScrape ==
    /\ StoreIdle
    /\ NormIdle
    /\ RankIdle
    /\ MultiIdle
    /\ PlanIdle
    /\ ParseIdle
    /\ SessionsIdle
    /\ browser_type \in BrowserTypes
    /\ max_retries \in 0..MaxRetriesCfg
    /\ browser = "none"
    /\ fallback_mode = "playwright"
    /\ entered = "not_yet"
    /\ scrape_pc = "new"
    /\ scrape_args = <<>>
    /\ attempt = 0
    /\ result = <<>>
    /\ html = <<>>
    /\ llm_attempt = 0
    /\ fetched = "none"
    /\ gemini_log = <<>>
    /\ tier_log = <<>>
    /\ wait = 0
    /\ pages_open = 0

\* async with ScraperEngine() as scraper: __aenter__
Enter ==
    /\ scrape_pc = "new"
    /\ \E start_ok \in BOOLEAN, launch_ok \in BOOLEAN :
          LET e == aenter(browser_type, start_ok, launch_ok)
          IN  /\ browser' = e.browser
              /\ fallback_mode' = e.fallback_mode
              /\ entered' = e.entered
    /\ scrape_pc' = "ready"
    /\ UNCHANGED <<browser_type, max_retries, scrape_args, attempt, result,
                   html, llm_attempt, fetched, gemini_log, tier_log, wait,
                   pages_open, storeVars, normVars,
                   rankVars, multiVars, planVars,
                   parseVars, sessions>>

\* scrape_agency(url, agency_name, extract_packages) up to the for loop
StartScrape ==
    /\ scrape_pc = "ready"
    /\ \E url \in AgencyUrls, extract_packages \in BOOLEAN :
          scrape_args' = [url |-> url, extract_packages |-> extract_packages]
    /\ result' = InitialResult(fallback_mode)
    /\ attempt' = 1
    /\ scrape_pc' = IF max_retries >= 1 THEN "attempt" ELSE "returned"
    /\ UNCHANGED <<engineVars, html, llm_attempt, fetched, gemini_log,
                   tier_log, wait, pages_open, storeVars, normVars,
                   rankVars, multiVars, planVars,
                   parseVars, sessions>>

\* The except clauses of scrape_agency after an attempt failed with the
\* given outcome: error set, sleep unless it was the last attempt, next
\* iteration or the return after the loop
AttemptFailed(outcome) ==
    /\ fetched' = outcome
    /\ IF Handler(outcome) \in {"timeout", "generic"}
       THEN /\ result' = on_fetch_exception(result, outcome)
            /\ wait' = IF attempt < max_retries THEN Pow2(attempt) ELSE 0
            /\ attempt' = attempt + 1
            /\ scrape_pc' = IF attempt < max_retries THEN "attempt"
                            ELSE "returned"
       ELSE /\ scrape_pc' = "raised"
            /\ UNCHANGED <<result, wait, attempt>>

\* one iteration of the for loop up to the call of the extraction
Fetch ==
    /\ scrape_pc = "attempt"
    /\ \E outcome \in FetchOutcomes(browser), page \in Pages :
          IF FetchSucceeds(outcome)
          THEN /\ fetched' = outcome
               /\ html' = page
               /\ llm_attempt' = 0
               /\ gemini_log' = <<>>
               /\ wait' = 0
               /\ UNCHANGED <<attempt, pages_open>>
               /\ IF scrape_args.extract_packages
                  THEN /\ result' = [result EXCEPT !.html_length = page.length]
                       /\ tier_log' = <<"gemini">>
                       /\ scrape_pc' = "gemini"
                  ELSE /\ result' = [result EXCEPT !.html_length = page.length,
                                                   !.success = TRUE]
                       /\ tier_log' = <<>>
                       /\ scrape_pc' = "returned"
          ELSE /\ AttemptFailed(outcome)
               /\ pages_open' = pages_open + PagesLeaked(browser, outcome)
               /\ UNCHANGED <<html, llm_attempt, gemini_log, tier_log>>
    /\ UNCHANGED <<engineVars, scrape_args, storeVars, normVars,
                   rankVars, multiVars, planVars,
                   parseVars, sessions>>

\* one iteration of the for loop of extract_packages_from_html
GeminiCall ==
    /\ scrape_pc = "gemini"
    /\ \E resp \in GeminiResponses :
          LET step == IterationOf[resp].step
              last == llm_attempt + 1 >= GeminiMaxRetries
          IN  /\ gemini_log' = Append(gemini_log, resp)
              /\ IF step = "return"
                 THEN /\ result' = [result EXCEPT
                                       !.packages = IterationOf[resp].cleaned,
                                       !.success = TRUE]
                      /\ scrape_pc' = "returned"
                      /\ wait' = 0
                      /\ UNCHANGED llm_attempt
                 ELSE IF step = "break"
                 THEN /\ scrape_pc' = "fallback"
                      /\ wait' = 0
                      /\ UNCHANGED <<result, llm_attempt>>
                 ELSE /\ llm_attempt' = llm_attempt + 1
                      /\ wait' = IF step = "backoff"
                                 THEN GeminiBaseDelay * Pow2(llm_attempt)
                                 ELSE 0
                      /\ scrape_pc' = IF last THEN "fallback" ELSE "gemini"
                      /\ UNCHANGED result
    /\ UNCHANGED <<engineVars, scrape_args, attempt, html, fetched,
                   tier_log, pages_open, storeVars, normVars,
                   rankVars, multiVars, planVars,
                   parseVars, sessions>>

\* return self._fallback_extract_packages(html, url), and the rest of the
\* iteration of scrape_agency.  The call is outside the try of
\* extract_packages_from_html: when the parser raises (extract_error), the
\* exception reaches the except Exception clause of scrape_agency and the
\* locals of the extraction are gone.
Fallback ==
    /\ scrape_pc = "fallback"
    /\ \E parser_raises \in BOOLEAN :
          IF parser_raises
          THEN /\ AttemptFailed("extract_error")
               /\ html' = <<>>
               /\ llm_attempt' = 0
               /\ gemini_log' = <<>>
               /\ tier_log' = <<>>
          ELSE LET out == FallbackOf[html, scrape_args.url]
               IN  /\ tier_log' = tier_log \o out.tiers
                   /\ result' = [result EXCEPT !.packages = out.packages,
                                               !.success = TRUE]
                   /\ scrape_pc' = "returned"
                   /\ wait' = 0
                   /\ UNCHANGED <<fetched, attempt, html, llm_attempt,
                                  gemini_log>>
    /\ UNCHANGED <<engineVars, scrape_args, pages_open, storeVars, normVars,
                   rankVars, multiVars, planVars,
                   parseVars, sessions>>

\* __aexit__: browser.close() closes every page of the browser
Exit ==
    /\ scrape_pc \in {"returned", "stored"}
    /\ scrape_pc' = "closed"
    /\ pages_open' = 0
    /\ UNCHANGED <<engineVars, scrape_args, attempt, result, html,
                   llm_attempt, fetched, gemini_log, tier_log, wait,
                   storeVars, normVars,
                   rankVars, multiVars, planVars,
                   parseVars, sessions>>

NextScrape ==
    \/ Enter
    \/ StartScrape
    \/ Fetch
    \/ GeminiCall
    \/ Fallback
    \/ Exit

SpecScrape == InitScrape /\ [][NextScrape]_vars

\* The coroutine of scrape_agency is awaited to its end by its caller: a
\* fetch returns or raises within its timeout, a sleep ends, a Gemini request
\* returns or raises, so a step that can be taken is eventually taken.
SpecScrapeFair == SpecScrape /\ WF_vars(NextScrape)

-----------------------------------------------------------------------------
(* Specification SpecIngest: one ingestion run over one agency *)

\* update_agency_scrape_status(db, agency_id, success, packages_found)
update_agency_scrape_status(counts, agency_id, success) ==
    IF success
    THEN [counts EXCEPT ![agency_id].scrape_success_count = @ + 1]
    ELSE [counts EXCEPT ![agency_id].scrape_failure_count = @ + 1]

\* what raw_package.get(key, default) gives normalize_package for a dict
\* written by an extraction tier: the tiers write package_title and
\* price_in_inr, normalize_package reads title and price_inr
AsRawListing(pkg) ==
    [title |-> PyStr(<<>>),
     price_inr |-> PyInt(0),
     duration_days |-> PyInt(pkg.duration_days),
     destinations |-> ItemList(pkg.destinations),
     inclusions |-> ItemList(<<>>),
     exclusions |-> ItemList(<<>>),
     highlights |-> ItemList(<<>>),
     url |-> pkg.url,
     source_confidence_score |-> pkg.source_confidence_score]

InitIngest ==
    /\ dialect \in Dialects
    /\ table = <<>>
    /\ calls = <<>>
    /\ agency_counts = NoCounts
    /\ NormIdle
    /\ RankIdle
    /\ MultiIdle
    /\ PlanIdle
    /\ ParseIdle
    /\ SessionsIdle
    /\ browser_type = "chromium"
    /\ max_retries = 1
    /\ browser = "none"
    /\ fallback_mode = "playwright"
    /\ entered = "not_yet"
    /\ scrape_pc = "new"
    /\ scrape_args = <<>>
    /\ attempt = 0
    /\ result = <<>>
    /\ html = <<>>
    /\ llm_attempt = 0
    /\ fetched = "none"
    /\ gemini_log = <<>>
    /\ tier_log = <<>>
    /\ wait = 0
    /\ pages_open = 0

\* the body of the loop of auto_scrape_and_store after scrape_agency
\* returned: the packages go to bulk_create_packages as the scraper made
\* them, and an exception of the call is caught and printed
AutoScrapeAndStore ==
    /\ scrape_pc = "returned"
    /\ scrape_args.extract_packages
    /\ \E agency_id \in Agencies :
          IF ~result.success \/ result.packages = <<>>
          THEN UNCHANGED <<table, calls>>
          ELSE LET out == bulk_create_packages(dialect, table, agency_id,
                                               result.packages)
               IN  /\ table' = out.rows
                   /\ calls' = Append(calls, [agency_id |-> agency_id,
                                              packages |-> result.packages,
                                              created |-> out.created,
                                              raised |-> out.raised])
    /\ scrape_pc' = "stored"
    /\ UNCHANGED <<dialect, agency_counts, normVars, engineVars, scrape_args,
                   attempt, result, html, llm_attempt, fetched, gemini_log,
                   tier_log, wait, pages_open,
                   rankVars, multiVars, planVars,
                   parseVars, sessions>>

\* the body of the loop of scrape_and_store after scrape_agency returned:
\* the packages go through normalize_packages_batch first
ScrapeAndStore ==
    /\ scrape_pc = "returned"
    /\ scrape_args.extract_packages
    /\ \E agency_id \in Agencies :
          IF ~result.success \/ result.packages = <<>>
          THEN /\ agency_counts' =
                      update_agency_scrape_status(agency_counts, agency_id, FALSE)
               /\ UNCHANGED <<table, calls>>
          ELSE LET raw_packages == [i \in DOMAIN result.packages |->
                                       AsRawListing(result.packages[i])]
                   normalized_packages ==
                       normalize_packages_batch(raw_packages, agency_id)
                   out == bulk_create_packages(dialect, table, agency_id,
                                               normalized_packages)
               IN  IF normalized_packages = <<>>
                   THEN /\ agency_counts' =
                               update_agency_scrape_status(agency_counts,
                                                           agency_id, FALSE)
                        /\ UNCHANGED <<table, calls>>
                   ELSE /\ table' = out.rows
                        /\ calls' = Append(calls,
                                           [agency_id |-> agency_id,
                                            packages |-> normalized_packages,
                                            created |-> out.created,
                                            raised |-> out.raised])
                        /\ agency_counts' =
                               update_agency_scrape_status(agency_counts,
                                                           agency_id,
                                                           ~out.raised)
    /\ scrape_pc' = "stored"
    /\ UNCHANGED <<dialect, normVars, engineVars, scrape_args, attempt,
                   result, html, llm_attempt, fetched, gemini_log, tier_log,
                   wait, pages_open,
                   rankVars, multiVars, planVars,
                   parseVars, sessions>>

NextIngest ==
    \/ Enter
    \/ StartScrape
    \/ Fetch
    \/ GeminiCall
    \/ Fallback
    \/ AutoScrapeAndStore
    \/ ScrapeAndStore
    \/ Exit

SpecIngest == InitIngest /\ [][NextIngest]_vars

-----------------------------------------------------------------------------
(* agents/ranker.py : PackageRanker *)

\* Scores are computed as exact fractions [num, den] in lowest terms; the
\* total is rounded to thousandths as round(total, 3) does.
RECURSIVE Gcd(_, _)
Gcd(a, b) == IF b = 0 THEN a ELSE Gcd(b, a % b)

Abs(x) == IF x < 0 THEN -x ELSE x

Rat(n, d) ==
    LET g == Gcd(Abs(n), d)
    IN  [num |-> n \div g, den |-> d \div g]

RZero == [num |-> 0, den |-> 1]
ROne == [num |-> 1, den |-> 1]
RHalf == [num |-> 1, den |-> 2]

RAdd(x, y) == Rat(x.num * y.den + y.num * x.den, x.den * y.den)
RMul(x, y) == Rat(x.num * y.num, x.den * y.den)
RLeq(x, y) == x.num * y.den <= y.num * x.den
RMin(x, y) == IF RLeq(x, y) THEN x ELSE y

\* set(d.lower() for d in items)
LowerSet(items) == {StrLower(items[i]) : i \in DOMAIN items}

\* an Optional value that is None or 0: "not value"
Unset(v) == v = <<>> \/ v[1] = 0

\* _score_destination_match with the intent's destinations counted as a list
score_destination_by_list(package, intent) ==
    IF intent.destinations = <<>> THEN RHalf
    ELSE LET pkg_destinations == LowerSet(package.destinations)
             intent_destinations == LowerSet(intent.destinations)
             overlap == pkg_destinations \cap intent_destinations
         IN  IF pkg_destinations = {} THEN RZero
             ELSE IF overlap = {} THEN RZero
             ELSE RMin(Rat(Cardinality(overlap), Len(intent.destinations)), ROne)

\* _score_destination_match(package, intent)
_score_destination_match(package, intent) ==
    IF intent.destinations = <<>> THEN RHalf
    ELSE LET pkg_destinations == LowerSet(package.destinations)
             intent_destinations == LowerSet(intent.destinations)
             overlap == pkg_destinations \cap intent_destinations
             coverage == IF pkg_destinations = intent_destinations THEN ROne
                         ELSE Rat(Cardinality(overlap),
                                  Cardinality(intent_destinations))
         IN  IF pkg_destinations = {} THEN RZero
             ELSE IF overlap = {} THEN RZero
             ELSE RMin(coverage, ROne)

\* _score_duration_match scoring the distance also beyond twice the
\* flexibility
score_duration_no_cutoff(package, intent) ==
    IF Unset(intent.duration_days) THEN RHalf
    ELSE LET pkg_days == package.duration_days
             intent_days == intent.duration_days[1]
             flexibility == intent.flexibility_days
             diff == Abs(pkg_days - intent_days)
             max_diff == flexibility * 2
         IN  IF pkg_days = 0 THEN RZero
             ELSE IF diff = 0 THEN ROne
             ELSE IF diff <= flexibility
             THEN Rat(5 * (flexibility + 1) - diff, 5 * (flexibility + 1))
             ELSE IF diff >= max_diff THEN RHalf
             ELSE Rat(max_diff - diff, max_diff)

\* _score_duration_match(package, intent)
\*   1.0 - (diff / (flexibility + 1)) * 0.2 = (5(f+1) - diff) / 5(f+1)
_score_duration_match(package, intent) ==
    IF Unset(intent.duration_days) THEN RHalf
    ELSE LET pkg_days == package.duration_days
             intent_days == intent.duration_days[1]
             flexibility == intent.flexibility_days
             diff == Abs(pkg_days - intent_days)
             max_diff == flexibility * 2
         IN  IF pkg_days = 0 THEN RZero
             ELSE IF diff = 0 THEN ROne
             ELSE IF diff <= flexibility
             THEN Rat(5 * (flexibility + 1) - diff, 5 * (flexibility + 1))
             ELSE IF diff >= max_diff THEN RZero
             ELSE Rat(max_diff - diff, max_diff)

\* _score_budget_match without the 5% band around the budget
score_budget_no_band(package, intent) ==
    IF Unset(intent.budget_per_person) THEN RHalf
    ELSE LET pkg_price == package.price_in_inr
             budget == intent.budget_per_person[1]
             over == pkg_price - budget
         IN  IF pkg_price = 0 THEN RZero
             ELSE IF pkg_price < budget
             THEN Rat(8 * budget + 2 * pkg_price, 10 * budget)
             ELSE IF 10 * over <= budget
             THEN Rat(9 * budget - 50 * over, 10 * budget)
             ELSE IF 10 * over <= 3 * budget
             THEN Rat(8 * budget - 20 * over, 10 * budget)
             ELSE Rat(75 * budget - 150 * over, 100 * budget)

\* _score_budget_match(package, intent), over_ratio = over / budget:
\*   0.8 + ratio * 0.2               = (8b + 2p) / 10b
\*   0.9 - over_ratio * 5            = (9b - 50 over) / 10b
\*   0.6 - (over_ratio - 0.10) * 2   = (8b - 20 over) / 10b
\*   0.3 - (over_ratio - 0.30) * 1.5 = (75b - 150 over) / 100b
_score_budget_match(package, intent) ==
    IF Unset(intent.budget_per_person) THEN RHalf
    ELSE LET pkg_price == package.price_in_inr
             budget == intent.budget_per_person[1]
             over == pkg_price - budget
         IN  IF pkg_price = 0 THEN RZero
             ELSE IF 20 * Abs(over) <= budget THEN ROne
             ELSE IF pkg_price < budget
             THEN Rat(8 * budget + 2 * pkg_price, 10 * budget)
             ELSE IF 10 * over <= budget
             THEN Rat(9 * budget - 50 * over, 10 * budget)
             ELSE IF 10 * over <= 3 * budget
             THEN Rat(8 * budget - 20 * over, 10 * budget)
             ELSE IF 2 * over <= budget
             THEN Rat(75 * budget - 150 * over, 100 * budget)
             ELSE RZero

\* the default of agency_trust_score and source_confidence_score, in
\* hundredths
DefaultTrust == 50

\* float(package.get(key, 0.5) or 0.5), in hundredths
TrustOrDefault(v) == IF Unset(v) THEN DefaultTrust ELSE v[1]

\* _score_trust with an absent trust or confidence counted as 0
score_trust_absent_as_zero(package) ==
    LET value(v) == IF v = <<>> THEN 0 ELSE v[1]
    IN  Rat(value(package.agency_trust_score)
                + value(package.source_confidence_score), 200)

\* _score_trust(package)
_score_trust(package) ==
    Rat(TrustOrDefault(package.agency_trust_score)
            + TrustOrDefault(package.source_confidence_score), 200)

\* _score_reviews(package); rating is in tenths of a star
_score_reviews(package) ==
    IF package.rating = <<>> THEN RHalf
    ELSE LET rating_score == Rat(package.rating[1], 50)
             bonus == IF package.reviews_count >= 100 THEN Rat(10, 100)
                      ELSE IF package.reviews_count >= 50 THEN Rat(5, 100)
                      ELSE IF package.reviews_count >= 10 THEN Rat(2, 100)
                      ELSE RZero
         IN  RMin(RAdd(rating_score, bonus), ROne)

\* _score_inclusions(package, intent)
_score_inclusions(package, intent) ==
    LET pkg_inclusions == LowerSet(package.inclusions)
        must_include == LowerSet(intent.must_include)
        base == RMin(Rat(Cardinality(pkg_inclusions), 10), Rat(7, 10))
        bonus == IF must_include # {}
                 THEN RMul(Rat(Cardinality(pkg_inclusions \cap must_include),
                               Cardinality(must_include)), Rat(3, 10))
                 ELSE RZero
    IN  RMin(RAdd(base, bonus), ROne)

\* _calculate_scores(package, intent)
_calculate_scores(package, intent) ==
    [destination_match |-> _score_destination_match(package, intent),
     duration_match |-> _score_duration_match(package, intent),
     budget_match |-> _score_budget_match(package, intent),
     trust_score |-> _score_trust(package),
     reviews |-> _score_reviews(package),
     inclusions |-> _score_inclusions(package, intent)]

\* self.weights with the default environment, in hundredths
weights ==
    [destination_match |-> 30, duration_match |-> 20, budget_match |-> 25,
     trust_score |-> 10, reviews |-> 10, inclusions |-> 5]

\* round(x, 3) in thousandths, ties to the even digit
Round3(x) ==
    LET scaled == 1000 * x.num
        q == scaled \div x.den
        r == scaled % x.den
    IN  IF 2 * r < x.den THEN q
        ELSE IF 2 * r > x.den THEN q + 1
        ELSE IF q % 2 = 0 THEN q ELSE q + 1

\* _calculate_total_score(scores), in thousandths
_calculate_total_score(scores) ==
    LET weighted(factor) == RMul(scores[factor], Rat(weights[factor], 100))
        total == RAdd(weighted("destination_match"),
                 RAdd(weighted("duration_match"),
                 RAdd(weighted("budget_match"),
                 RAdd(weighted("trust_score"),
                 RAdd(weighted("reviews"), weighted("inclusions"))))))
    IN  Round3(total)

\* the dict rank_packages appends to scored_packages
ScoredPackage(package, intent) ==
    LET scores == _calculate_scores(package, intent)
    IN  [package |-> package,
         total_score |-> _calculate_total_score(scores),
         score_breakdown |-> scores]

\* the sort with equal scores put in reverse input order
RECURSIVE sort_descending_unstable(_)
sort_descending_unstable(scored) ==
    IF scored = <<>> THEN <<>>
    ELSE LET rest == sort_descending_unstable(Tail(scored))
             x == Head(scored)
             before == SelectSeq(rest, LAMBDA y : y.total_score >= x.total_score)
             after == SelectSeq(rest, LAMBDA y : y.total_score < x.total_score)
         IN  before \o <<x>> \o after

\* scored_packages.sort(key=total_score, reverse=True): a stable sort, an
\* element goes before the later elements that do not score higher
RECURSIVE sort_descending(_)
sort_descending(scored) ==
    IF scored = <<>> THEN <<>>
    ELSE LET rest == sort_descending(Tail(scored))
             x == Head(scored)
             before == SelectSeq(rest, LAMBDA y : y.total_score > x.total_score)
             after == SelectSeq(rest, LAMBDA y : y.total_score <= x.total_score)
         IN  before \o <<x>> \o after

\* scored_packages[:max_results]
SliceTo(items, n) ==
    IF n >= 0
    THEN SubSeq(items, 1, IF n < Len(items) THEN n ELSE Len(items))
    ELSE SubSeq(items, 1, IF Len(items) + n > 0 THEN Len(items) + n ELSE 0)

\* _create_ranked_package(package, rank, total_score, score_breakdown, intent)
_create_ranked_package(scored, rank) ==
    [package |-> scored.package,
     rank |-> rank,
     total_score |-> scored.total_score,
     score_breakdown |-> scored.score_breakdown,
     booking_url |-> scored.package.url]

\* rank_packages(packages, intent, max_results) from the end of the scoring
\* loop on, scored being the list the loop built: scored_packages after the
\* sort and the list returned
rank_packages(scored, max) ==
    IF scored = <<>> THEN [scored_packages |-> <<>>, ranked |-> <<>>]
    ELSE LET sorted == sort_descending(scored)
             top_packages == SliceTo(sorted, max)
         IN  [scored_packages |-> sorted,
              ranked |-> [i \in DOMAIN top_packages |->
                             _create_ranked_package(top_packages[i], i)]]

-----------------------------------------------------------------------------
(* Specification SpecRank: rank_packages applied to a candidate list *)

PlaceManali == <<"M", "a", "n", "a", "l", "i">>
PlaceKasol == <<"K", "a", "s", "o", "l">>
PlaceManaliLower == StrLower(PlaceManali)
PlaceKasolLower == StrLower(PlaceKasol)
ItemHotel == <<"H", "o", "t", "e", "l">>
ItemMeals == <<"M", "e", "a", "l", "s">>
ItemVisa == <<"v", "i", "s", "a">>

\* the candidate of the Manali-Kasol scenario: 5 days at 19500, the quality
\* fields absent
PackageManaliKasol ==
    [package_title |-> TitleManaliTour, url |-> UrlLong,
     price_in_inr |-> 19500, duration_days |-> 5,
     destinations |-> <<PlaceManali, PlaceKasol>>,
     inclusions |-> <<>>, rating |-> <<>>, reviews_count |-> 0,
     agency_trust_score |-> <<>>, source_confidence_score |-> <<>>]

\* a candidate with every quality field present
PackageRated ==
    [PackageManaliKasol EXCEPT
        !.package_title = TitleGoaTrip,
        !.inclusions = <<ItemHotel, ItemMeals>>,
        !.rating = <<45>>, !.reviews_count = 120,
        !.agency_trust_score = <<90>>, !.source_confidence_score = <<80>>]

RankDestinations ==
    {<<>>, <<PlaceManali>>, <<PlaceKasolLower, PlaceManali>>,
     <<PlaceManali, PlaceKasol, PlaceGoa>>}
RankDurations == {0, 3, 8, 10}
RankPrices == {0, 10000, 20000, 22000, 23000, 30000, 30001}

RankCandidates ==
    {PackageManaliKasol, PackageRated}
        \cup {[PackageManaliKasol EXCEPT !.destinations = d] :
                 d \in RankDestinations}
        \cup {[PackageManaliKasol EXCEPT !.duration_days = d] :
                 d \in RankDurations}
        \cup {[PackageManaliKasol EXCEPT !.price_in_inr = p] : p \in RankPrices}

\* the intent of the Manali-Kasol scenario
IntentManaliKasol ==
    [destinations |-> <<PlaceManali, PlaceKasol>>, duration_days |-> <<5>>,
     flexibility_days |-> 2, budget_per_person |-> <<20000>>,
     must_include |-> <<>>]

RankIntents ==
    {IntentManaliKasol,
     [destinations |-> <<>>, duration_days |-> <<>>, flexibility_days |-> 2,
      budget_per_person |-> <<>>, must_include |-> <<>>],
     [destinations |-> <<PlaceManaliLower>>, duration_days |-> <<5>>,
      flexibility_days |-> 0, budget_per_person |-> <<10000>>,
      must_include |-> <<>>],
     [destinations |-> <<PlaceKasol, PlaceManali, PlaceGoa>>,
      duration_days |-> <<5>>, flexibility_days |-> 3,
      budget_per_person |-> <<20000>>, must_include |-> <<ItemHotel, ItemVisa>>],
     [destinations |-> <<PlaceManali, PlaceManaliLower>>,
      duration_days |-> <<5>>, flexibility_days |-> 1,
      budget_per_person |-> <<10000>>, must_include |-> <<>>],
     [destinations |-> <<PlaceGoa>>, duration_days |-> <<0>>,
      flexibility_days |-> 2, budget_per_person |-> <<0>>,
      must_include |-> <<ItemVisa>>]}

\* the dict the scoring loop appends, for every candidate and intent of the
\* model
ScoredOf ==
    [package \in RankCandidates, intent \in RankIntents |->
        ScoredPackage(package, intent)]

InitRank ==
    /\ StoreIdle
    /\ MultiIdle
    /\ PlanIdle
    /\ ParseIdle
    /\ SessionsIdle
    /\ NormIdle
    /\ ScrapeIdle
    /\ candidates \in SeqsUpTo(RankCandidates, MaxCandidates)
    /\ parsed_intent \in RankIntents
    /\ max_results \in (-1)..MaxResults
    /\ scored_packages = <<>>
    /\ ranked = <<>>
    /\ rank_pc = "input"

\* one call rank_packages(candidates, parsed_intent, max_results)
Rank ==
    /\ rank_pc = "input"
    /\ LET scored == [i \in DOMAIN candidates |->
                         ScoredOf[candidates[i], parsed_intent]]
           out == rank_packages(scored, max_results)
       IN  /\ scored_packages' = out.scored_packages
           /\ ranked' = out.ranked
    /\ rank_pc' = "done"
    /\ UNCHANGED <<candidates, parsed_intent, max_results, storeVars,
                   normVars, engineVars, scrapeVars, multiVars,
                   planVars, parseVars, sessions>>

NextRank == Rank

SpecRank == InitRank /\ [][NextRank]_vars

-----------------------------------------------------------------------------
(* Claims about bulk_create_packages *)

\* number of indices of a sequence satisfying a test
CountIdx(s, Test(_)) == Cardinality({i \in DOMAIN s : Test(s[i])})

\* the listings handed to agency a by the calls that returned (did not raise)
\* and that satisfy Test, counted over all calls
GivenCount(a, Test(_)) ==
    LET n(c) == IF calls[c].agency_id = a /\ ~calls[c].raised
                THEN CountIdx(calls[c].packages, Test)
                ELSE 0
        RECURSIVE Sum(_)
        Sum(c) == IF c = 0 THEN 0 ELSE n(c) + Sum(c - 1)
    IN  Sum(Len(calls))

\* the committed rows of agency a that satisfy Test
StoredCount(a, Test(_)) ==
    CountIdx(table, LAMBDA r : r.agency_id = a /\ Test(r))

\* C1: for any agency, when two listings with the same URL (longer than 10
\* characters) were given to bulk_create_packages for that agency, in one
\* call or in two successive calls, exactly one package with that URL is
\* stored for the agency once the inserts are committed.
\* (Stated for listings that carry a title; the untitled ones only add cases.)
C1_OnePackagePerUrl ==
    \A a \in Agencies, u \in {UrlLong} :
        LET SameUrl(p) == p.url = u
            TitledSameUrl(p) == p.package_title # EmptyStr /\ SameUrl(p)
        IN  GivenCount(a, TitledSameUrl) >= 2 => StoredCount(a, SameUrl) = 1

\* C2: for any agency, when two listings with no URL but the same title and
\* the same duration_days were given to bulk_create_packages for that agency,
\* in one call or in two successive calls, exactly one package with that
\* (title, duration) is stored for the agency after commit.
\* (Stated for non-empty titles.)
C2_OnePackagePerTitleDuration ==
    \A a \in Agencies, t \in {TitleGoaTrip}, d \in {3, 5} :
        LET SameKey(p) == p.package_title = t /\ p.duration_days = d
            NoUrlSameKey(p) == p.url = EmptyStr /\ SameKey(p)
        IN  GivenCount(a, NoUrlSameKey) >= 2 => StoredCount(a, SameKey) = 1

-----------------------------------------------------------------------------
(* Claims about normalize_package *)

\* the raw title as a string, trimmed and whitespace-collapsed
\* (a missing title counts as the empty string)
TrimmedRawTitle ==
    IF raw_package.title.kind = "str"
    THEN CollapseWhitespace(raw_package.title.str)
    ELSE <<>>

RawTitleIsText == raw_package.title.kind \in {"str", "missing"}

\* the raw title is a non-empty string made of whitespace only
RawTitleIsBlank ==
    /\ raw_package.title.kind = "str"
    /\ raw_package.title.str # <<>>
    /\ \A i \in DOMAIN raw_package.title.str :
          raw_package.title.str[i] \in Whitespace

\* price, duration and destinations of the raw listing pass validation
RawRestIsValid ==
    /\ _parse_price(raw_package.price_inr) \in MinPrice..MaxPrice
    /\ _parse_duration(raw_package.duration_days) \in MinDays..MaxDays
    /\ _normalize_destinations(raw_package.destinations) # <<>>

\* C4 as stated: normalize_package returns None for every raw listing whose
\* title, trimmed and whitespace-collapsed, has fewer than 5 characters,
\* the empty or missing title included.
C4_ShortTitleRejected ==
    (norm_pc = "done" /\ RawTitleIsText /\ Len(TrimmedRawTitle) < 5)
        => normalized = <<>>

\* C4 amended: normalize_package returns None for every raw listing whose
\* title is a non-empty string of whitespace only, and no returned package
\* has an empty title; a missing or empty title is not rejected but replaced
\* by "Untitled Package", and there is no minimum title length.
C4_BlankTitleRejected ==
    norm_pc = "done" =>
        /\ RawTitleIsBlank => normalized = <<>>
        /\ normalized # <<>> => normalized[1].package_title # <<>>
        /\ (normalized # <<>> /\ Falsy(raw_package.title))
              => normalized[1].package_title = UntitledPackage
        /\ (RawTitleIsText /\ ~RawTitleIsBlank /\ RawRestIsValid)
              => normalized # <<>>

\* a whitespace-only title is rejected although the other fields are valid
C4_Witness ==
    /\ norm_pc = "done"
    /\ RawTitleIsBlank
    /\ RawRestIsValid
    /\ normalized = <<>>

-----------------------------------------------------------------------------
(* Claims about scrape_agency *)

\* scrape_agency has returned its result to the caller
Returned == scrape_pc \in {"returned", "stored", "closed"}

\* C3: scrape_agency never raises for a fetch, navigation or extraction
\* exception; when all max_retries (>= 1) attempts of the call failed, the
\* result has success = false, an error that is not None and no packages;
\* and every returned result with success = false has no packages.
C3_FailureIsReturnedNotRaised ==
    /\ scrape_pc # "raised"
    /\ (Returned /\ max_retries >= 1 /\ attempt = max_retries + 1)
          => /\ ~result.success
             /\ result.error # "None"
             /\ result.packages = <<>>
    /\ (Returned /\ ~result.success) => result.packages = <<>>

\* two attempts, the second ended by an exception of the extraction
C3_Witness ==
    /\ scrape_pc = "returned"
    /\ max_retries = 2
    /\ attempt = 3
    /\ fetched = "extract_error"
    /\ ~result.success
    /\ result.html_length > 0

-----------------------------------------------------------------------------
(* Claims about extract_packages_from_html *)

\* the latest response of the structured extraction
LastResponse == gemini_log[Len(gemini_log)]

\* every element of the array can be cleaned by _clean_packages
Cleanable(data) == \A i \in DOMAIN data : ~CleanRaises(data[i])

\* the structured extraction failed with a rate-limit error twice and
\* answered with a JSON array the third time
RateLimitedTwiceThenArray ==
    /\ Len(gemini_log) = 3
    /\ gemini_log[1].kind = "rate_limit"
    /\ gemini_log[2].kind = "rate_limit"
    /\ gemini_log[3].kind = "list"

\* C7 as stated: after two rate-limit errors and a JSON array on the third
\* attempt, the cleaned records of the array are returned and no fallback
\* tier is invoked.
C7_ThirdAttemptArrayReturned ==
    RateLimitedTwiceThenArray
        => /\ Returned
           /\ tier_log = <<"gemini">>
           /\ result.packages = _clean_packages(gemini_log[3].data)

\* C7 amended: after two rate-limit errors and, on the third attempt, a JSON
\* array whose elements are all objects with a string (or no) title, the
\* cleaned records of the array are returned and no fallback tier is
\* invoked.
C7_ThirdAttemptCleanArrayReturned ==
    (RateLimitedTwiceThenArray /\ Cleanable(gemini_log[3].data))
        => /\ Returned
           /\ result.success
           /\ tier_log = <<"gemini">>
           /\ result.packages = _clean_packages(gemini_log[3].data)

C7_Witness ==
    /\ RateLimitedTwiceThenArray
    /\ gemini_log[3].data = <<ElementGood>>
    /\ scrape_pc = "returned"
    /\ Len(result.packages) = 1
    /\ result.packages[1].package_title = TitleGoaTrip

\* a response that is not parseable as JSON or is JSON and not an array
Malformed(kind) == kind \in {"bad_json", "bad_json_429", "non_list"}

\* the DOM fallback is the next thing the invocation does or did
AtDomFallback ==
    \/ scrape_pc = "fallback"
    \/ Returned /\ Len(tier_log) >= 2 /\ tier_log[2] = "dom"

\* C8 as stated: a malformed response (not JSON, or JSON and not an array) is
\* followed by no further structured-extraction call and the cascade goes
\* on to the DOM fallback at once; only rate-limit errors are followed by
\* another call.
C8_MalformedNeverRetried ==
    /\ \A i \in 1..(Len(gemini_log) - 1) : gemini_log[i].kind = "rate_limit"
    /\ (gemini_log # <<>> /\ Malformed(LastResponse.kind)) => AtDomFallback

\* C8 amended: a response that is not parseable as JSON, or another error
\* that is not a rate-limit error, is followed by no further call and the
\* cascade goes on to the DOM fallback at once, unless the text of the
\* parse error itself holds "429" or "quota", which is handled as a
\* rate-limit error; a response that is JSON and not an array is followed
\* by the next call at once, like a rate-limit error but without the wait,
\* until 3 calls have been made.
C8_OnlyNonArrayAndRateLimitRetried ==
    /\ Len(gemini_log) <= GeminiMaxRetries
    /\ \A i \in 1..(Len(gemini_log) - 1) :
          gemini_log[i].kind \in {"rate_limit", "bad_json_429", "non_list"}
    /\ (gemini_log # <<>> /\ LastResponse.kind \in {"bad_json", "error"})
          => AtDomFallback
    /\ (gemini_log # <<>> /\ Len(gemini_log) < GeminiMaxRetries
            /\ LastResponse.kind \in {"rate_limit", "bad_json_429", "non_list"})
          => scrape_pc = "gemini"
    /\ (gemini_log # <<>> /\ LastResponse.kind = "non_list") => wait = 0

\* a non-array answer was followed by a second call, whose answer was not
\* JSON
C8_Witness ==
    /\ Len(gemini_log) = 2
    /\ gemini_log[1].kind = "non_list"
    /\ gemini_log[2].kind = "bad_json"
    /\ scrape_pc = "fallback"

\* the packages of the DOM tier and of the regex tier for every page and URL
DomOf ==
    [page \in Pages, url \in AgencyUrls |-> CardPackages(page.cards, url, <<>>)]
RegexOf ==
    [page \in Pages, url \in AgencyUrls |-> _fallback_regex_global(page, url)]

\* the fallback of the invocation has run
FallbackRan == Returned /\ Len(tier_log) >= 2

\* when the DOM tier finds no record the regex tier runs
DomEmptyGoesToRegex ==
    (FallbackRan /\ DomOf[html, scrape_args.url] = <<>>)
        => /\ tier_log = <<"gemini", "dom", "regex">>
           /\ result.packages = RegexOf[html, scrape_args.url]

\* C9 as stated: a tier's output is accepted only with at least one record:
\* after an empty JSON array the cascade continues to the DOM fallback, and
\* after a DOM fallback without records it continues to the regex fallback.
C9_EmptyOutputFallsThrough ==
    /\ (gemini_log # <<>> /\ LastResponse.kind = "list"
            /\ LastResponse.data = <<>>)
          => AtDomFallback
    /\ DomEmptyGoesToRegex

\* C9 amended: the structured extraction's output is accepted also when it is
\* an empty JSON array (the invocation returns no record and no fallback
\* runs); the DOM fallback's output is accepted only with at least one
\* record, and when it has none the regex fallback runs, whose output is
\* returned even when it is empty.
C9_OnlyDomOutputFallsThrough ==
    /\ (gemini_log # <<>> /\ LastResponse.kind = "list"
            /\ LastResponse.data = <<>>)
          => /\ Returned
             /\ result.success
             /\ tier_log = <<"gemini">>
             /\ result.packages = <<>>
    /\ DomEmptyGoesToRegex
    /\ (FallbackRan /\ DomOf[html, scrape_args.url] # <<>>)
          => /\ tier_log = <<"gemini", "dom">>
             /\ result.packages = DomOf[html, scrape_args.url]

\* the DOM tier found nothing on the page and the regex tier answered
C9_Witness ==
    /\ scrape_pc = "returned"
    /\ html = PageLoose
    /\ tier_log = <<"gemini", "dom", "regex">>
    /\ Len(result.packages) = 1
    /\ result.packages[1].package_title = TitleManaliTour

-----------------------------------------------------------------------------
(* Claims about the package store *)

\* C6: every persisted package has a non-empty title, whichever ingestion
\* path (scrape_and_store or auto_scrape_and_store) stored it.
C6_PersistedTitleNonEmpty ==
    \A i \in DOMAIN table : table[i].package_title # <<>>

\* C11: whenever scrape_agency has returned, on every exit path, every
\* browser page the call opened has been closed: no page is left open.
C11_NoPageLeftOpen ==
    scrape_pc \in {"returned", "stored"} => pages_open = 0

-----------------------------------------------------------------------------
(* Claims about PackageRanker *)

\* the list the scoring loop builds from a candidate list, in input order
RECURSIVE ScoredList(_, _)
ScoredList(packages, intent) ==
    IF packages = <<>> THEN <<>>
    ELSE <<ScoredOf[Head(packages), intent]>>
             \o ScoredList(Tail(packages), intent)

\* the list the scoring loop built from the candidates
ScoredInput == ScoredList(candidates, parsed_intent)

\* the place of element i of a scored list in the descending order of total
\* score with equal scores in input order: one more than the number of
\* elements that score higher, or score the same and come earlier
PlaceOf(input, i) ==
    1 + Cardinality({j \in DOMAIN input :
                        \/ input[j].total_score > input[i].total_score
                        \/ /\ input[j].total_score = input[i].total_score
                           /\ j < i})

\* C12: for every candidate list, the empty one included, and every
\* max_results >= 0, rank_packages returns exactly the first
\* min(|candidates|, max_results) elements of the candidates sorted by
\* descending total score, equal scores in input order, with ranks 1..k.
C12_TopOfStableSort ==
    (rank_pc = "done" /\ max_results >= 0) =>
        LET input == ScoredInput
        IN  /\ Len(ranked) = (IF Len(candidates) < max_results
                              THEN Len(candidates) ELSE max_results)
            /\ \A i \in DOMAIN candidates :
                   LET place == PlaceOf(input, i)
                   IN  place <= max_results =>
                           /\ ranked[place].package = candidates[i]
                           /\ ranked[place].total_score = input[i].total_score
                           /\ ranked[place].rank = place

\* two candidates of equal score are ranked with max_results = 1: the first
\* of the input is the one returned
C12_Witness ==
    /\ rank_pc = "done"
    /\ Len(candidates) = 2
    /\ max_results = 1
    /\ candidates[1] # candidates[2]
    /\ ScoredInput[1].total_score = ScoredInput[2].total_score
    /\ Len(ranked) = 1
    /\ ranked[1].package = candidates[1]
    /\ ranked[1].rank = 1

\* the destinations of a list as a set, case ignored
PlaceSet(items) == {StrLower(items[i]) : i \in DOMAIN items}

\* the destination-match score the claim states for a package and an intent:
\* x is that score
IsStatedDestinationScore(x, package, intent) ==
    LET pkg == PlaceSet(package.destinations)
        wanted == PlaceSet(intent.destinations)
    IN  IF intent.destinations = <<>> THEN x = RHalf
        ELSE IF pkg = {} \/ pkg \cap wanted = {} THEN x = RZero
        ELSE IF pkg = wanted THEN x = ROne
        ELSE x.num * Cardinality(wanted) = Cardinality(pkg \cap wanted) * x.den

\* C13: the destination-match score is 0.5 for every candidate when the
\* intent has no destinations; otherwise 0 when the package has no
\* destinations or shares none with the intent, exactly 1.0 when the two
\* destination sets are equal ignoring case and order, and
\* |intersection| / |intent destinations| in all other cases.
C13_DestinationScore ==
    rank_pc = "done" =>
        \A i \in DOMAIN scored_packages :
            IsStatedDestinationScore(
                scored_packages[i].score_breakdown.destination_match,
                scored_packages[i].package, parsed_intent)

\* one call scores a package equal to the intent's set in another case and
\* order at 1.0 and a package covering a part of the intent at that part
C13_Witness ==
    /\ rank_pc = "done"
    /\ Len(parsed_intent.destinations) = 3
    /\ \E i, j \in DOMAIN scored_packages :
           /\ scored_packages[i].package.destinations
                  = <<PlaceManali, PlaceKasol, PlaceGoa>>
           /\ scored_packages[i].score_breakdown.destination_match = ROne
           /\ scored_packages[j].package.destinations = <<PlaceManali>>
           /\ scored_packages[j].score_breakdown.destination_match = Rat(1, 3)

\* the distance of a candidate's duration from the intent's
DurationDistance(package) ==
    Abs(package.duration_days - parsed_intent.duration_days[1])

\* the intent fixes a duration >= 1 (its flexibility is >= 0 in every intent)
DurationWanted ==
    parsed_intent.duration_days # <<>> /\ parsed_intent.duration_days[1] >= 1

\* As stated in C14: for a fixed intent duration and flexibility, of two
\* package durations >= 0 (0 = unknown) the one not farther from the
\* intent's duration scores at least as much.
C14_MonotoneInDistance ==
    (rank_pc = "done" /\ DurationWanted) =>
        \A i, j \in DOMAIN scored_packages :
            DurationDistance(scored_packages[i].package)
                    <= DurationDistance(scored_packages[j].package)
                => RLeq(scored_packages[j].score_breakdown.duration_match,
                        scored_packages[i].score_breakdown.duration_match)

\* C14 (amended): for a fixed intent duration (>= 1) and flexibility (>= 0),
\* of two known package durations (>= 1) the one not farther from the
\* intent's duration scores at least as much; a package of unknown duration
\* (0) scores 0.0 whatever its distance.
C14_MonotoneForKnownDurations ==
    (rank_pc = "done" /\ DurationWanted) =>
        \A i, j \in DOMAIN scored_packages :
            /\ scored_packages[i].package.duration_days = 0
                   => scored_packages[i].score_breakdown.duration_match = RZero
            /\ ( /\ scored_packages[i].package.duration_days >= 1
                 /\ scored_packages[j].package.duration_days >= 1
                 /\ DurationDistance(scored_packages[i].package)
                        <= DurationDistance(scored_packages[j].package) )
                => RLeq(scored_packages[j].score_breakdown.duration_match,
                        scored_packages[i].score_breakdown.duration_match)

\* with intent 5 days and flexibility 3, a package of unknown duration
\* (distance 5) scores 0 next to a 10-day package (distance 5) scoring more,
\* and an 8-day package (distance 3) scores more than both
C14_Witness ==
    /\ rank_pc = "done"
    /\ DurationWanted
    /\ parsed_intent.flexibility_days = 3
    /\ \E i, j \in DOMAIN scored_packages :
           /\ scored_packages[i].package.duration_days = 0
           /\ scored_packages[i].score_breakdown.duration_match = RZero
           /\ scored_packages[j].package.duration_days = 10
           /\ scored_packages[j].score_breakdown.duration_match = Rat(1, 6)

\* the intent fixes a positive budget
BudgetWanted ==
    parsed_intent.budget_per_person # <<>>
        /\ parsed_intent.budget_per_person[1] > 0

\* C15: for every positive intent budget, a package priced exactly at the
\* budget has budget-match 1.0, and a package priced more than 50% over the
\* budget has budget-match 0.0.
C15_BudgetAtAndFarOver ==
    (rank_pc = "done" /\ BudgetWanted) =>
        \A i \in DOMAIN scored_packages :
            LET price == scored_packages[i].package.price_in_inr
                budget == parsed_intent.budget_per_person[1]
                score == scored_packages[i].score_breakdown.budget_match
            IN  /\ price = budget => score = ROne
                /\ 2 * (price - budget) > budget => score = RZero

\* one call scores a package at the budget and one a rupee more than 50%
\* over it
C15_Witness ==
    /\ rank_pc = "done"
    /\ BudgetWanted
    /\ \E i, j \in DOMAIN scored_packages :
           /\ scored_packages[i].package.price_in_inr
                  = parsed_intent.budget_per_person[1]
           /\ scored_packages[i].score_breakdown.budget_match = ROne
           /\ 2 * scored_packages[j].package.price_in_inr
                  = 3 * parsed_intent.budget_per_person[1] + 2
           /\ scored_packages[j].score_breakdown.budget_match = RZero

\* the Manali-Kasol scenario: the intent is IntentManaliKasol and candidate
\* i is PackageManaliKasol
IsScenario(i) ==
    /\ rank_pc = "done"
    /\ parsed_intent = IntentManaliKasol
    /\ scored_packages[i].package = PackageManaliKasol

\* the scenario's candidate is first whenever every other candidate scores
\* lower and at least one result is asked for
FirstAmongLower(i) ==
    ( /\ max_results >= 1
      /\ \A j \in DOMAIN scored_packages :
             j # i => scored_packages[j].total_score
                          < scored_packages[i].total_score )
        => /\ ranked[1].package = PackageManaliKasol
           /\ ranked[1].rank = 1

\* As stated in C16: in the scenario the factor scores are 1.0, 1.0 and 1.0,
\* the total is >= 0.9 and the candidate is ranked 1 among lower-scoring
\* candidates.
C16_ScenarioTotalAtLeast900 ==
    \A i \in DOMAIN scored_packages :
        IsScenario(i) =>
            /\ scored_packages[i].score_breakdown.destination_match = ROne
            /\ scored_packages[i].score_breakdown.duration_match = ROne
            /\ scored_packages[i].score_breakdown.budget_match = ROne
            /\ scored_packages[i].total_score >= 900
            /\ FirstAmongLower(i)

\* C16 (amended): with default weights, for the intent {Manali and Kasol,
\* 5 days, flexibility 2, budget 20000} and a candidate {Manali and Kasol,
\* 5 days, price 19500} whose other fields are absent and take their
\* defaults, rank_packages gives destination = 1.0, duration = 1.0,
\* budget = 1.0 and a total score of 0.85, and the candidate is ranked 1
\* among any candidates with lower total score.
C16_ScenarioTotalIs850 ==
    \A i \in DOMAIN scored_packages :
        IsScenario(i) =>
            /\ scored_packages[i].score_breakdown.destination_match = ROne
            /\ scored_packages[i].score_breakdown.duration_match = ROne
            /\ scored_packages[i].score_breakdown.budget_match = ROne
            /\ scored_packages[i].score_breakdown.trust_score = RHalf
            /\ scored_packages[i].score_breakdown.reviews = RHalf
            /\ scored_packages[i].score_breakdown.inclusions = RZero
            /\ scored_packages[i].total_score = 850
            /\ FirstAmongLower(i)

\* the scenario's candidate comes second in the input, after a candidate
\* that scores lower, and is returned first
C16_Witness ==
    /\ Len(scored_packages) = 2
    /\ IsScenario(1)
    /\ candidates[2] = PackageManaliKasol
    /\ scored_packages[2].total_score < 850
    /\ max_results >= 1
    /\ ranked[1].package = PackageManaliKasol
    /\ ranked[1].total_score = 850

-----------------------------------------------------------------------------
(* Claims about malformed records and normalized fields *)

\* the table holds pkg_data for the agency: its row, or the row it was
\* skipped for as a duplicate
HeldInTable(agency_id, pkg_data) ==
    \/ \E r \in DOMAIN table : table[r] = TravelPackage(agency_id, pkg_data)
    \/ ExistingUrl(table, agency_id, pkg_data)
    \/ ExistingTitle(table, agency_id, pkg_data)

\* C17: when one record of a batch given to bulk_create_packages is
\* malformed (constructing the package from it raises), that record alone is
\* skipped: the call does not raise, and every other record of the batch,
\* before or after the malformed one, is persisted unless it is a duplicate.
C17_MalformedRecordAloneSkipped ==
    \A c \in DOMAIN calls :
        LET batch == calls[c].packages
            bad == {i \in DOMAIN batch : ConstructorRaises(batch[i])}
        IN  Cardinality(bad) = 1 =>
                /\ ~calls[c].raised
                /\ \A i \in DOMAIN batch \ bad :
                       HeldInTable(calls[c].agency_id, batch[i])

\* Column(Float, default=0.5) of source_confidence_score, in hundredths
DefaultConfidence == 50

\* the source_confidence_score of a package dict once it is a TravelPackage:
\* the value under its key, the column default when the dict has no such key
ConfidenceOf(package) ==
    IF "source_confidence_score" \in DOMAIN package
    THEN package.source_confidence_score
    ELSE DefaultConfidence

\* a confidence in hundredths clamped to [0, 1]
Clamp01(c) == IF c < 0 THEN 0 ELSE IF c > 100 THEN 100 ELSE c

\* C18: the source_confidence_score of every package produced by
\* normalize_package equals the confidence carried by the raw listing
\* clamped to [0,1], and is 0.5 only when the raw listing carries none.
C18_ConfidencePassedThrough ==
    (norm_pc = "done" /\ normalized # <<>>) =>
        ConfidenceOf(normalized[1])
            = (IF raw_package.source_confidence_score = <<>>
               THEN DefaultConfidence
               ELSE Clamp01(raw_package.source_confidence_score[1]))

\* an absolute URL of scheme http or https with a non-empty network
\* location: after "//" comes a character that does not end the location
IsAbsoluteHttpUrl(url) ==
    \E scheme \in {<<"h", "t", "t", "p", ":", "/", "/">>,
                   <<"h", "t", "t", "p", "s", ":", "/", "/">>} :
        /\ StartsWith(url, scheme)
        /\ Len(url) > Len(scheme)
        /\ url[Len(scheme) + 1] \notin {"/", "?", "#"}

\* C19: the url of every package produced by normalize_package is either
\* the empty string or an absolute URL with scheme http or https and a
\* non-empty network location; a relative or otherwise malformed raw URL is
\* stored as empty.
C19_UrlEmptyOrAbsolute ==
    (norm_pc = "done" /\ normalized # <<>>) =>
        \/ normalized[1].url = EmptyStr
        \/ IsAbsoluteHttpUrl(normalized[1].url)

-----------------------------------------------------------------------------
(* Specification SpecMulti: scrape_multiple_agencies *)

\* the agency dicts of the input list
AgencyDicts ==
    {[url |-> UrlAgency, name |-> <<"A">>],
     [url |-> HrefAbsolute, name |-> <<"B">>]}

\* what a scrape_agency call returns: the result dict, success or not
\* (scrape_agency catches every exception of its attempts)
ScrapeResult(agency, success) ==
    [kind |-> "dict", url |-> agency.url, agency_name |-> agency.name,
     success |-> success]

\* isinstance(r, Exception)
IsException(r) == r.kind = "exception"

\* the positions of agencies[i:i + max_concurrent]
BatchOf(items, i, n) ==
    {j \in DOMAIN items : i < j /\ j <= i + n}

\* the results loop keeping the successful results only
collect_successful(batch_results) ==
    SelectSeq(batch_results, LAMBDA r : ~IsException(r) /\ r.success)

\* for r in batch_results: results.append(r) unless r is an exception
collect(batch_results) ==
    SelectSeq(batch_results, LAMBDA r : ~IsException(r))

\* the values of a function over a set of positions, in position order
RECURSIVE InOrder(_, _)
InOrder(f, positions) ==
    IF positions = {} THEN <<>>
    ELSE LET first == CHOOSE j \in positions : \A k \in positions : j <= k
         IN  <<f[first]>> \o InOrder(f, positions \ {first})

\* the batch of the current loop iteration
Batch == BatchOf(agencies, batch_i, max_concurrent)

InitMulti ==
    /\ StoreIdle
    /\ PlanIdle
    /\ ParseIdle
    /\ SessionsIdle
    /\ NormIdle
    /\ ScrapeIdle
    /\ RankIdle
    /\ agencies \in SeqsUpTo(AgencyDicts, MaxAgencies)
    /\ max_concurrent \in 1..MaxConcurrent
    /\ batch_i = 0
    /\ tasks = [j \in DOMAIN agencies |-> "not_started"]
    /\ task_results = [j \in DOMAIN agencies |-> <<>>]
    /\ results = <<>>
    /\ multi_pc = "loop"

\* a loop iteration up to the await: the batch is sliced and
\* asyncio.gather schedules one scrape_agency call per agency of the batch
StartBatch ==
    /\ multi_pc = "loop"
    /\ batch_i < Len(agencies)
    /\ tasks' = [j \in DOMAIN tasks |->
                    IF j \in Batch THEN "scheduled" ELSE tasks[j]]
    /\ multi_pc' = "gather"
    /\ UNCHANGED <<agencies, max_concurrent, batch_i, task_results, results,
                   storeVars, normVars, engineVars, scrapeVars, rankVars,
                   planVars, parseVars, sessions>>

\* the event loop starts a scheduled call: the calls start in the order
\* gather scheduled them
TaskStart(j) ==
    /\ multi_pc = "gather"
    /\ tasks[j] = "scheduled"
    /\ \A k \in DOMAIN tasks : k < j => tasks[k] # "scheduled"
    /\ tasks' = [tasks EXCEPT ![j] = "running"]
    /\ UNCHANGED <<agencies, max_concurrent, batch_i, task_results, results,
                   multi_pc, storeVars, normVars, engineVars, scrapeVars,
                   rankVars, planVars,
                   parseVars, sessions>>

\* a running call returns its result dict, in any order among the running
TaskFinish(j) ==
    /\ multi_pc = "gather"
    /\ tasks[j] = "running"
    /\ \E success \in BOOLEAN :
          task_results' =
              [task_results EXCEPT ![j] = <<ScrapeResult(agencies[j], success)>>]
    /\ tasks' = [tasks EXCEPT ![j] = "finished"]
    /\ UNCHANGED <<agencies, max_concurrent, batch_i, results, multi_pc,
                   storeVars, normVars, engineVars, scrapeVars, rankVars,
                   planVars, parseVars, sessions>>

\* gather returns once every call of the batch has finished; the results
\* are appended in batch order; a pause follows unless this was the last
\* batch
Gathered ==
    /\ multi_pc = "gather"
    /\ \A j \in Batch : tasks[j] = "finished"
    /\ LET batch_results == InOrder([j \in Batch |-> task_results[j][1]], Batch)
       IN  results' = results \o collect(batch_results)
    /\ IF batch_i + max_concurrent < Len(agencies)
       THEN multi_pc' = "sleep" /\ batch_i' = batch_i
       ELSE multi_pc' = "loop" /\ batch_i' = batch_i + max_concurrent
    /\ UNCHANGED <<agencies, max_concurrent, tasks, task_results, storeVars,
                   normVars, engineVars, scrapeVars, rankVars, planVars,
                   parseVars, sessions>>

\* await asyncio.sleep(3) is over: the next iteration
Sleep ==
    /\ multi_pc = "sleep"
    /\ batch_i' = batch_i + max_concurrent
    /\ multi_pc' = "loop"
    /\ UNCHANGED <<agencies, max_concurrent, tasks, task_results, results,
                   storeVars, normVars, engineVars, scrapeVars, rankVars,
                   planVars, parseVars, sessions>>

\* the range is exhausted: return results
ReturnResults ==
    /\ multi_pc = "loop"
    /\ batch_i >= Len(agencies)
    /\ multi_pc' = "returned"
    /\ UNCHANGED <<agencies, max_concurrent, batch_i, tasks, task_results,
                   results, storeVars, normVars, engineVars, scrapeVars,
                   rankVars, planVars,
                   parseVars, sessions>>

NextMulti ==
    \/ StartBatch
    \/ \E j \in DOMAIN tasks : TaskStart(j)
    \/ \E j \in DOMAIN tasks : TaskFinish(j)
    \/ Gathered
    \/ Sleep
    \/ ReturnResults

SpecMulti == InitMulti /\ [][NextMulti]_vars

-----------------------------------------------------------------------------
(* Claims about scrape_multiple_agencies *)

\* the scrape_agency calls in flight: scheduled or running, not finished
InFlight == {j \in DOMAIN tasks : tasks[j] \in {"scheduled", "running"}}

\* the number of the batch that input position j falls in
BatchNo(j) == (j - 1) \div max_concurrent

\* C20: in scrape_multiple_agencies at most SCRAPER_MAX_CONCURRENT
\* scrape_agency calls are in flight at every moment, no scrape of batch
\* k+1 starts before every scrape of batch k has finished, and the list
\* returned holds exactly one result per input agency in input order, also
\* when some of the scrapes fail.
C20_BoundedBatchesInOrder ==
    multi_pc # "idle" =>
        /\ Cardinality(InFlight) <= max_concurrent
        /\ \A j, k \in DOMAIN tasks :
               (BatchNo(j) < BatchNo(k) /\ tasks[k] # "not_started")
                   => tasks[j] = "finished"
        /\ multi_pc = "returned" =>
               /\ Len(results) = Len(agencies)
               /\ \A j \in DOMAIN agencies :
                      /\ results[j].url = agencies[j].url
                      /\ results[j].agency_name = agencies[j].name
                      /\ results[j] = task_results[j][1]

\* three agencies with a limit of two: two batches, a failed scrape in the
\* first, and every result returned in its place
C20_Witness ==
    /\ multi_pc = "returned"
    /\ Len(agencies) = 3
    /\ max_concurrent = 2
    /\ agencies[1] # agencies[2]
    /\ Len(results) = 3
    /\ ~results[1].success
    /\ results[2].success
    /\ results[3].agency_name = agencies[3].name

\* C30: for a fixed positive intent budget the budget-match score is
\* monotonically non-increasing in price over the range price >= budget: of
\* two prices at or above the budget the lower one scores at least as much.
C30_BudgetScoreMonotoneAboveBudget ==
    (rank_pc = "done" /\ BudgetWanted) =>
        \A i, j \in DOMAIN scored_packages :
            LET budget == parsed_intent.budget_per_person[1]
                p1 == scored_packages[i].package.price_in_inr
                p2 == scored_packages[j].package.price_in_inr
            IN  (budget <= p1 /\ p1 <= p2)
                    => RLeq(scored_packages[j].score_breakdown.budget_match,
                            scored_packages[i].score_breakdown.budget_match)

\* ---------------------------------------------------------------------------
\* agents/planner.py: TripPlanner
\* ---------------------------------------------------------------------------

PlaceDubai == <<"D", "u", "b", "a", "i">>
PlaceBali == <<"B", "a", "l", "i">>

\* the entries of international_cities that the destinations drawn here can hit
international_cities ==
    {<<StrLower(PlaceDubai), "UAE">>, <<StrLower(PlaceBali), "Indonesia">>}

\* _get_country_for_city: the table first, then the first of the intent's
\* countries, then India
_get_country_for_city(city, countries) ==
    LET city_lower == StrLower(city)
        hits == {e \in international_cities : e[1] = city_lower}
    IN  IF hits # {} THEN (CHOOSE e \in hits : TRUE)[2]
        ELSE IF countries # <<>> THEN countries[1]
        ELSE "India"

\* _estimate_days: 3 days per destination, at least 5
_estimate_days(destinations) ==
    IF Len(destinations) = 0 THEN 5
    ELSE IF Len(destinations) = 1 THEN 5
    ELSE IF Len(destinations) * 3 > 5 THEN Len(destinations) * 3 ELSE 5

\* _split_into_legs: one leg per destination; the days are divided equally, the
\* remainder goes to the first destinations, and no leg gets less than one day
_split_into_legs(destinations, total_days, countries) ==
    LET num_destinations == Len(destinations)
        base_days == total_days \div num_destinations
        remaining_days == total_days % num_destinations
    IN  [i \in 1..num_destinations |->
            LET days == base_days + (IF i - 1 < remaining_days THEN 1 ELSE 0)
            IN  [cities |-> <<destinations[i]>>,
                 days |-> IF days < 1 THEN 1 ELSE days,
                 country |-> _get_country_for_city(destinations[i], countries)]]

\* _create_multi_city_legs
_create_multi_city_legs(destinations, total_days, countries) ==
    IF Len(destinations) <= 1
    THEN <<[cities |-> destinations,
            days |-> total_days,
            country |-> IF countries # <<>> THEN countries[1] ELSE "India"]>>
    ELSE _split_into_legs(destinations, total_days, countries)

\* create_plan; a duration_days of None or 0 is falsy and replaced by the
\* estimate
create_plan(intent) ==
    LET destinations == intent.destinations
        total_days ==
            IF intent.duration_days # <<>> /\ intent.duration_days[1] # 0
            THEN intent.duration_days[1]
            ELSE _estimate_days(destinations)
    IN  IF Len(destinations) = 0
        THEN [total_days |-> total_days, legs |-> <<>>]
        ELSE IF Len(destinations) = 1
        THEN [total_days |-> total_days,
              legs |-> <<[cities |-> destinations,
                          days |-> total_days,
                          country |-> IF intent.countries # <<>>
                                      THEN intent.countries[1]
                                      ELSE "India"]>>]
        ELSE [total_days |-> total_days,
              legs |-> _create_multi_city_legs(destinations, total_days,
                                               intent.countries)]

\* ---------------------------------------------------------------------------
\* Specification SpecPlan: one create_plan call on a drawn intent
\* ---------------------------------------------------------------------------

PlanCities == {PlaceManali, PlaceGoa, PlaceDubai}
PlanCountries == {<<>>, <<"India">>, <<"India", "UAE">>}
PlanDurations == {<<>>} \cup {<<d>> : d \in 0..MaxPlanDays}

PlanIntents ==
    [destinations : SeqsUpTo(PlanCities, MaxDestinations),
     countries : PlanCountries,
     duration_days : PlanDurations]

InitPlan ==
    /\ StoreIdle
    /\ NormIdle
    /\ ScrapeIdle
    /\ RankIdle
    /\ MultiIdle
    /\ ParseIdle
    /\ SessionsIdle
    /\ plan_intent \in PlanIntents
    /\ plan = <<>>
    /\ plan_pc = "input"

CreatePlan ==
    /\ plan_pc = "input"
    /\ plan' = <<create_plan(plan_intent)>>
    /\ plan_pc' = "done"
    /\ UNCHANGED <<plan_intent, storeVars, normVars, engineVars, scrapeVars,
                   rankVars, multiVars, parseVars, sessions>>

NextPlan == CreatePlan

SpecPlan == InitPlan /\ [][NextPlan]_vars

\* ---------------------------------------------------------------------------
\* Claims about TripPlanner
\* ---------------------------------------------------------------------------

RECURSIVE SumDays(_)
SumDays(legs) ==
    IF legs = <<>> THEN 0 ELSE Head(legs).days + SumDays(Tail(legs))

\* C21: for every intent with two or more destinations and a duration_days of
\* at least 1, create_plan returns one leg per destination, every leg has at
\* least one day, and the legs' days add up to the plan's total_days.
C21_LegsAddUpToTotalDays ==
    (/\ plan_pc = "done"
     /\ Len(plan_intent.destinations) >= 2
     /\ plan_intent.duration_days # <<>>
     /\ plan_intent.duration_days[1] >= 1)
        => /\ Len(plan[1].legs) = Len(plan_intent.destinations)
           /\ \A i \in DOMAIN plan[1].legs : plan[1].legs[i].days >= 1
           /\ SumDays(plan[1].legs) = plan[1].total_days

\* ---------------------------------------------------------------------------
\* agents/intent_parser.py: IntentParser
\* ---------------------------------------------------------------------------

\* self.known_places of the parser
parser_known_places ==
    << <<"m", "a", "n", "a", "l", "i">>, <<"k", "a", "s", "o", "l">>,
       <<"k", "u", "l", "l", "u">>,
       <<"a", "m", "r", "i", "t", "s", "a", "r">>,
       <<"s", "h", "i", "m", "l", "a">>, <<"j", "a", "i", "p", "u", "r">>,
       <<"u", "d", "a", "i", "p", "u", "r">>,
       <<"j", "o", "d", "h", "p", "u", "r">>, <<"g", "o", "a">>,
       <<"k", "e", "r", "a", "l", "a">>, <<"k", "o", "c", "h", "i">>,
       <<"m", "u", "n", "n", "a", "r">>, <<"d", "e", "l", "h", "i">>,
       <<"a", "g", "r", "a">>, <<"v", "a", "r", "a", "n", "a", "s", "i">>,
       <<"r", "i", "s", "h", "i", "k", "e", "s", "h">>,
       <<"h", "a", "r", "i", "d", "w", "a", "r">>, <<"l", "e", "h">>,
       <<"l", "a", "d", "a", "k", "h">>,
       <<"s", "r", "i", "n", "a", "g", "a", "r">>,
       <<"d", "h", "a", "r", "a", "m", "s", "h", "a", "l", "a">>,
       <<"d", "a", "l", "h", "o", "u", "s", "i", "e">>,
       <<"c", "h", "a", "n", "d", "i", "g", "a", "r", "h">>,
       <<"m", "y", "s", "o", "r", "e">>, <<"o", "o", "t", "y">>,
       <<"k", "a", "s", "h", "m", "i", "r">>, <<"p", "u", "n", "e">>,
       <<"m", "u", "m", "b", "a", "i">>,
       <<"b", "a", "n", "g", "a", "l", "o", "r", "e">>,
       <<"h", "y", "d", "e", "r", "a", "b", "a", "d">>,
       <<"a", "h", "m", "e", "d", "a", "b", "a", "d">>,
       <<"g", "a", "n", "d", "h", "i", "n", "a", "g", "a", "r">>,
       <<"g", "u", "r", "u", "g", "r", "a", "m">>,
       <<"u", "d", "a", "i", "p", "u", "r">>,
       <<"p", "u", "s", "h", "k", "a", "r">> >>

\* self.country_keywords
country_keywords ==
    << <<"i", "n", "d", "i", "a">>, <<"u", "a", "e">>,
       <<"d", "u", "b", "a", "i">>,
       <<"a", "b", "u", " ", "d", "h", "a", "b", "i">>,
       <<"s", "i", "n", "g", "a", "p", "o", "r", "e">>,
       <<"m", "a", "l", "a", "y", "s", "i", "a">>,
       <<"t", "h", "a", "i", "l", "a", "n", "d">>, <<"b", "a", "l", "i">>,
       <<"i", "n", "d", "o", "n", "e", "s", "i", "a">>,
       <<"n", "e", "p", "a", "l">>, <<"b", "h", "u", "t", "a", "n">>,
       <<"s", "r", "i", " ", "l", "a", "n", "k", "a">>,
       <<"v", "i", "e", "t", "n", "a", "m">>, <<"u", "s", "a">>,
       <<"u", "k">>, <<"c", "a", "n", "a", "d", "a">>,
       <<"a", "u", "s", "t", "r", "a", "l", "i", "a">> >>

\* \w of the regular expressions
IsWordChar(c) == IsLetter(c) \/ c \in Digits \/ c = "_"

\* re.search(rf"\b{re.escape(word)}\b", q) for a word that starts and ends
\* with a letter: an occurrence with no word character right before or after
WordSearch(word, q) ==
    \E i \in 0..(Len(q) - Len(word)) :
        /\ SubSeq(q, i + 1, i + Len(word)) = word
        /\ i = 0 \/ ~IsWordChar(q[i])
        /\ i + Len(word) = Len(q) \/ ~IsWordChar(q[i + Len(word) + 1])

\* the hyphen pattern of _extract_destinations needs a "-" between two runs
\* of letters
HasHyphen(q) == \E i \in DOMAIN q : q[i] = "-"

\* _extract_destinations for a query without "-": the known places found in
\* the lower-cased query, first occurrences only, in title case
_extract_destinations(q) ==
    LET lowered == StrLower(q)
        found == SelectSeq(parser_known_places,
                           LAMBDA place : WordSearch(place, lowered))
        kept == KeepFirstSeen([i \in DOMAIN found |->
                                  StrLower(StrStrip(found[i]))], <<>>)
    IN  [i \in DOMAIN kept |-> StrTitle(kept[i])]

CountryIndia == <<"I", "n", "d", "i", "a">>

\* _extract_countries
_extract_countries(q) ==
    LET lowered == StrLower(q)
        found == SelectSeq(country_keywords,
                           LAMBDA word : WordSearch(word, lowered))
        seen == KeepFirstSeen([i \in DOMAIN found |->
                                  StrLower(StrStrip(found[i]))], <<>>)
        countries == [i \in DOMAIN seen |-> StrTitle(seen[i])]
        has_india == \E i \in DOMAIN countries : countries[i] = CountryIndia
        destinations == _extract_destinations(q)
    IN  IF countries # <<>> /\ ~has_india THEN countries
        ELSE IF has_india THEN <<CountryIndia>>
        ELSE IF \E i \in DOMAIN destinations :
                    \E k \in DOMAIN parser_known_places :
                        parser_known_places[k] = StrLower(destinations[i])
        THEN <<CountryIndia>>
        ELSE countries

\* _determine_trip_type
_determine_trip_type(destinations, countries) ==
    IF Len(countries) >= 2 THEN "multi_country"
    ELSE IF countries = <<CountryIndia>> THEN "domestic"
    ELSE IF Len(countries) = 1 /\ StrLower(countries[1]) # StrLower(CountryIndia)
    THEN "international"
    ELSE "domestic"

\* parse: the fields the trip type is computed from, and the trip type
parse(raw) ==
    LET q == StrStrip(raw)
        destinations == _extract_destinations(q)
        countries == _extract_countries(q)
    IN  [raw_query |-> q,
         destinations |-> destinations,
         countries |-> countries,
         trip_type |-> _determine_trip_type(destinations, countries)]

\* ---------------------------------------------------------------------------
\* Specification SpecParse: one IntentParser.parse call on a drawn query
\* ---------------------------------------------------------------------------

QueryWords ==
    {<<"I", "n", "d", "i", "a">>, <<"D", "u", "b", "a", "i">>,
     <<"A", "b", "u">>, <<"D", "h", "a", "b", "i">>,
     <<"M", "a", "n", "a", "l", "i">>, <<"t", "o">>}

\* the queries: up to MaxQueryWords words separated by single spaces
Queries ==
    {StrJoin(words, <<" ">>) : words \in SeqsUpTo(QueryWords, MaxQueryWords)}

InitParse ==
    /\ StoreIdle
    /\ NormIdle
    /\ ScrapeIdle
    /\ RankIdle
    /\ MultiIdle
    /\ PlanIdle
    /\ SessionsIdle
    /\ query \in Queries
    /\ parse_result = <<>>
    /\ parse_pc = "input"

Parse ==
    /\ parse_pc = "input"
    /\ parse_result' = <<parse(query)>>
    /\ parse_pc' = "done"
    /\ UNCHANGED <<query, storeVars, normVars, engineVars, scrapeVars,
                   rankVars, multiVars, planVars, sessions>>

NextParse == Parse

SpecParse == InitParse /\ [][NextParse]_vars

\* ---------------------------------------------------------------------------
\* Claims about IntentParser
\* ---------------------------------------------------------------------------

\* the country keywords other than "india" that the query names
OtherCountryKeywords ==
    {k \in DOMAIN country_keywords :
        /\ country_keywords[k] # StrLower(CountryIndia)
        /\ WordSearch(country_keywords[k], StrLower(query))}

NamesIndia == WordSearch(StrLower(CountryIndia), StrLower(query))

NamesKnownCity ==
    \E k \in DOMAIN parser_known_places :
        WordSearch(parser_known_places[k], StrLower(query))

\* C22: a query that names India together with at least one other country
\* keyword gets trip_type multi_country, a query with exactly one country
\* keyword other than India and without India gets international, and a query
\* that names only India or only known Indian cities gets domestic.
C22_TripTypeByCountries ==
    parse_pc = "done" =>
        /\ (NamesIndia /\ OtherCountryKeywords # {})
                => parse_result[1].trip_type = "multi_country"
        /\ (~NamesIndia /\ Cardinality(OtherCountryKeywords) = 1)
                => parse_result[1].trip_type = "international"
        /\ (OtherCountryKeywords = {} /\ (NamesIndia \/ NamesKnownCity))
                => parse_result[1].trip_type = "domestic"

-----------------------------------------------------------------------------
(* Claims about the dedup keys of bulk_create_packages *)

\* the package dict has a URL the URL check looks at
UsableUrl(pkg_data) ==
    pkg_data.url # EmptyStr /\ Len(pkg_data.url) > PlaceholderLen

\* C23: the (title, duration) key is consulted only for candidates without a
\* usable URL: in a call that does not raise, a candidate whose URL is
\* present, longer than the placeholder length and equal to no stored URL of
\* the agency is inserted as new, whatever titles and durations are stored.
C23_UsableUrlInsertedAsNew ==
    [][Len(calls') = Len(calls) + 1 =>
        LET call == calls'[Len(calls')]
            added == SubSeq(table', Len(table) + 1, Len(table'))
        IN  ~call.raised =>
                \A i \in DOMAIN call.packages :
                    LET pkg_data == call.packages[i]
                    IN  (/\ UsableUrl(pkg_data)
                         /\ \A r \in DOMAIN table :
                               ~(/\ table[r].agency_id = call.agency_id
                                 /\ table[r].url = pkg_data.url))
                            => \E k \in DOMAIN added :
                                  added[k] = TravelPackage(call.agency_id,
                                                           pkg_data)]_vars

\* a stored package of the agency itself has the candidate's usable URL, or
\* the candidate's non-empty title together with its duration_days
OwnMatch(agency_id, pkg_data) ==
    \E r \in DOMAIN table :
        /\ table[r].agency_id = agency_id
        /\ \/ UsableUrl(pkg_data) /\ table[r].url = pkg_data.url
           \/ /\ pkg_data.package_title # EmptyStr
              /\ table[r].package_title = pkg_data.package_title
              /\ table[r].duration_days = pkg_data.duration_days

\* C24: deduplication is scoped per agency: in a call that does not raise, a
\* candidate that matches no stored package of its own agency is inserted,
\* whatever the other agencies have stored, identical URL or identical
\* (title, duration_days) included.
C24_DedupScopedPerAgency ==
    [][Len(calls') = Len(calls) + 1 =>
        LET call == calls'[Len(calls')]
            added == SubSeq(table', Len(table) + 1, Len(table'))
        IN  ~call.raised =>
                \A i \in DOMAIN call.packages :
                    ~OwnMatch(call.agency_id, call.packages[i])
                        => \E k \in DOMAIN added :
                              added[k] = TravelPackage(call.agency_id,
                                                       call.packages[i])]_vars

\* two agencies each hold a package with the same usable URL, title and
\* duration_days, the second one inserted by a later call
C24_Witness ==
    /\ Len(calls) = 2
    /\ calls[1].created = 1
    /\ calls[2].created = 1
    /\ calls[1].agency_id # calls[2].agency_id
    /\ calls[1].packages = calls[2].packages
    /\ UsableUrl(calls[2].packages[1])
    /\ calls[2].packages[1].package_title # EmptyStr
    /\ table = <<TravelPackage(calls[1].agency_id, calls[1].packages[1]),
                 TravelPackage(calls[2].agency_id, calls[2].packages[1])>>

-----------------------------------------------------------------------------
(* Claims about the fetch attempts of scrape_agency *)

\* C25: when the browser was launched and the page navigation failed with an
\* error other than a timeout, scrape_agency falls back to a plain HTTP GET:
\* the attempt that follows the failed navigation finds self.browser None
\* and fetches with requests instead of repeating the browser navigation.
C25_GetAfterNavigationError ==
    (/\ entered = "ok"
     /\ scrape_pc = "attempt"
     /\ fetched = "nav_error")
        => browser = "none"

-----------------------------------------------------------------------------
(* Claims about the confidence of extracted records *)

\* the confidence scores the records of a tier carry, over every page and
\* agency URL (DOM and regex fallback) and every response (structured
\* extraction)
ScoresOf(records) ==
    {records[i].source_confidence_score[1] :
        i \in {j \in DOMAIN records : records[j].source_confidence_score # <<>>}}
DomScores ==
    UNION {ScoresOf(DomOf[page, url]) : page \in Pages, url \in AgencyUrls}
RegexScores ==
    UNION {ScoresOf(RegexOf[page, url]) : page \in Pages, url \in AgencyUrls}
StructuredScores ==
    UNION {ScoresOf(IterationOf[resp].cleaned) : resp \in GeminiResponses}

\* C26: every record returned by extract_packages_from_html carries a
\* confidence score assigned by the tier that produced it, and the score of
\* the regex fallback is lower than that of the DOM fallback, which is lower
\* than that of the structured extraction.
C26_ConfidenceByTier ==
    (Returned /\ result.success) =>
        /\ \A i \in DOMAIN result.packages :
              result.packages[i].source_confidence_score # <<>>
        /\ \A r \in RegexScores, d \in DomScores : r < d
        /\ \A d \in DomScores, s \in StructuredScores : d < s

-----------------------------------------------------------------------------
(* Claims about the termination of scrape_agency *)

\* a scrape_agency call is inside its retry loop
InRetryLoop == scrape_pc \in {"attempt", "gemini", "fallback"}

\* the last structured-extraction request failed with a rate-limit error
LastRateLimited ==
    gemini_log # <<>> /\ IsRateLimitText(LastResponse.kind)

\* the numbered fetch attempt never exceeds max_retries, an extraction makes
\* at most 3 structured-extraction requests, and a wait is 2^attempt seconds
\* after a failed fetch attempt (attempt counted from 1) or 5 * 2^attempt
\* seconds after a rate-limited request (attempt counted from 0)
RetriesBounded ==
    /\ InRetryLoop => attempt <= max_retries
    /\ Returned => attempt <= max_retries + 1
    /\ Len(gemini_log) <= 3
    /\ llm_attempt <= 3
    /\ wait # 0 =>
          \/ /\ scrape_pc = "attempt"
             /\ ~FetchSucceeds(fetched)
             /\ wait = 2 ^ (attempt - 1)
          \/ /\ scrape_pc \in {"gemini", "fallback"}
             /\ LastRateLimited
             /\ wait = 5 * 2 ^ (llm_attempt - 1)

\* C27: every scrape_agency call terminates whatever fails: it makes at most
\* max_retries fetch attempts, each extraction makes at most 3 structured
\* requests, the waits follow the fixed multipliers, and a call inside its
\* retry loop always comes to return its result.
C27_ScrapeTerminates ==
    /\ []RetriesBounded
    /\ InRetryLoop ~> Returned

\* the second and last fetch attempt, after a failed first one, has made
\* three rate-limited extraction requests and waited 20 seconds after the last
C27_Witness ==
    /\ max_retries = 2
    /\ attempt = 2
    /\ scrape_pc = "fallback"
    /\ Len(gemini_log) = 3
    /\ \A i \in DOMAIN gemini_log : IsRateLimitText(gemini_log[i].kind)
    /\ wait = 20

-----------------------------------------------------------------------------
(* Claims about the hand-over from the extraction tiers to the normalizer *)

\* a record of an extraction tier with a title of at least 5 characters, a
\* price of 1000 to 10,000,000, a duration of 1 to 90 days and a destination
ValidExtracted(pkg) ==
    /\ Len(CollapseWhitespace(pkg.package_title)) >= 5
    /\ pkg.price_in_inr >= MinPrice
    /\ pkg.price_in_inr <= MaxPrice
    /\ pkg.duration_days >= MinDays
    /\ pkg.duration_days <= MaxDays
    /\ pkg.destinations # <<>>

\* C28: every record returned by extract_packages_from_html, whatever the
\* tier, with a title of at least 5 characters, a price between 1000 and
\* 10,000,000, a duration between 1 and 90 and at least one destination
\* survives normalize_packages_batch in scrape_and_store with its title,
\* price and duration carried over: the batch handed to bulk_create_packages
\* holds a package with that title, price and duration.
C28_ValidRecordSurvivesNormalizer ==
    [][(/\ scrape_pc = "returned"
        /\ scrape_pc' = "stored"
        /\ agency_counts' # agency_counts
        /\ result.success)
        => \A i \in DOMAIN result.packages :
              LET pkg == result.packages[i]
              IN  ValidExtracted(pkg) =>
                      /\ Len(calls') = Len(calls) + 1
                      /\ \E k \in DOMAIN calls'[Len(calls')].packages :
                            LET stored == calls'[Len(calls')].packages[k]
                            IN  /\ stored.package_title
                                       = CollapseWhitespace(pkg.package_title)
                                /\ stored.price_in_inr = pkg.price_in_inr
                                /\ stored.duration_days = pkg.duration_days]_vars

-----------------------------------------------------------------------------
(* Specification SpecSessions: two bulk_create_packages calls for the same
   agency, each in a DB session of its own, running concurrently *)

\* the two request handlers, each with its own SessionLocal()
Sessions == {1, 2}

\* the listings the concurrent calls hand over
SessionListings ==
    [package_title : {TitleGoaTrip},
     url : {EmptyStr, UrlLong},
     price_in_inr : {5000},
     duration_days : {3, 5},
     destinations : {<< <<"G", "o", "a">> >>},
     scraped_at : {"datetime"}]

\* package_id_external of a row: NULL (<<>>) when the dict it was built from
\* has no such key
ExternalIdOf(row) ==
    IF "package_id_external" \in DOMAIN row
    THEN <<row.package_id_external>>
    ELSE <<>>

\* UniqueConstraint('agency_id', 'package_id_external'): the INSERT of the
\* pending rows is refused when two rows would share an agency_id and a
\* package_id_external that is not NULL
uq_agency_package(committed, pending) ==
    LET rows == committed \o pending
    IN  \E i, j \in DOMAIN rows :
            /\ i < j
            /\ j > Len(committed)
            /\ rows[i].agency_id = rows[j].agency_id
            /\ ExternalIdOf(rows[i]) # <<>>
            /\ ExternalIdOf(rows[i]) = ExternalIdOf(rows[j])

InitSessions ==
    /\ dialect \in Dialects
    /\ table = <<>>
    /\ calls = <<>>
    /\ agency_counts = NoCounts
    /\ NormIdle
    /\ ScrapeIdle
    /\ RankIdle
    /\ MultiIdle
    /\ PlanIdle
    /\ ParseIdle
    /\ \E agency_id \in Agencies :
          sessions \in [Sessions ->
                           [agency_id : {agency_id},
                            packages : SeqsUpTo(SessionListings, MaxBatch)
                                           \ {<<>>},
                            next : {1},
                            pending : {<<>>},
                            pc : {"loop"}]]

\* one iteration of the for loop of bulk_create_packages in session s: the
\* two duplicate queries against the committed rows, then db.add()
CheckAndAdd(s) ==
    /\ sessions # <<>>
    /\ sessions[s].pc = "loop"
    /\ LET me == sessions[s]
           pkg_data == me.packages[me.next]
           rows == QueryRows(table, me.pending)
           skip == \/ ExistingUrl(rows, me.agency_id, pkg_data)
                   \/ ExistingTitle(rows, me.agency_id, pkg_data)
           pending == IF skip THEN me.pending
                      ELSE Append(me.pending,
                                  TravelPackage(me.agency_id, pkg_data))
       IN  sessions' =
               [sessions EXCEPT
                   ![s].pending = pending,
                   ![s].next = me.next + 1,
                   ![s].pc = IF me.next = Len(me.packages)
                             THEN "commit" ELSE "loop"]
    /\ UNCHANGED <<storeVars, normVars, engineVars, scrapeVars, rankVars,
                   multiVars, planVars, parseVars>>

\* the end of bulk_create_packages in session s: db.commit() when something
\* was added, and the return
CommitSession(s) ==
    /\ sessions # <<>>
    /\ sessions[s].pc = "commit"
    /\ LET me == sessions[s]
           raised == /\ me.pending # <<>>
                     /\ \/ CommitRaises(dialect, me.pending)
                        \/ uq_agency_package(table, me.pending)
       IN  /\ table' = IF raised THEN table ELSE table \o me.pending
           /\ calls' = Append(calls,
                              [agency_id |-> me.agency_id,
                               packages |-> me.packages,
                               created |-> IF raised THEN 0
                                           ELSE Len(me.pending),
                               raised |-> raised])
           /\ sessions' = [sessions EXCEPT ![s].pc = "done"]
    /\ UNCHANGED <<dialect, agency_counts, normVars, engineVars, scrapeVars,
                   rankVars, multiVars, planVars, parseVars>>

NextSessions ==
    \E s \in Sessions : CheckAndAdd(s) \/ CommitSession(s)

SpecSessions == InitSessions /\ [][NextSessions]_vars

-----------------------------------------------------------------------------
(* Claims about concurrent bulk_create_packages calls *)

\* the listing occurs exactly once in the batch
OnceIn(packages, pkg_data) ==
    Cardinality({i \in DOMAIN packages : packages[i] = pkg_data}) = 1

\* C29: after any interleaving of two bulk_create_packages calls that run
\* concurrently in separate DB sessions for the same agency and both contain
\* the same listing, exactly one package for that listing is persisted.
C29_OnePackageAfterConcurrentCalls ==
    (/\ sessions # <<>>
     /\ \A s \in Sessions : sessions[s].pc = "done"
     /\ \A c \in DOMAIN calls : ~calls[c].raised)
        => \A pkg_data \in SessionListings :
              (\A s \in Sessions : OnceIn(sessions[s].packages, pkg_data))
                  => Cardinality({r \in DOMAIN table :
                        table[r] = TravelPackage(sessions[1].agency_id,
                                                 pkg_data)}) = 1

=============================================================================
